---- MODULE Spec2Model ----
(***************************************************************************)
(* PM Connect 3.0 backend (FastAPI route handlers over a MongoDB database) *)
(* as a state machine.  The collections are sequences of documents in      *)
(* insertion order; every handler is split at its database awaits, so      *)
(* requests held in different slots interleave exactly where the event     *)
(* loop can switch between them.                                           *)
(*                                                                         *)
(* Strings that the code trims, measures or matches against a regular      *)
(* expression are sequences of one-character strings.                      *)
(***************************************************************************)
EXTENDS Integers, Sequences, FiniteSets, TLC

(***************************************************************************)
(* Bounds of the model.                                                    *)
(***************************************************************************)
\* requests that can be in flight at the same time
NumReqs == 2
\* data rows of an uploaded roster file
MaxRoster == 2
\* data rows of a DataFrame handed to validate_invitee_csv on its own
MaxRows == 2
\* requests served in a run whose requests interleave
MaxRequests == 4
\* last instant of the clock (the clock counts token lifetimes)
MaxTime == 1
\* access tokens issued in a run
MaxTokens == 1

Reqs == 1..NumReqs

(***************************************************************************)
(* Strings.                                                                *)
(***************************************************************************)
Letters == {"E", "A", "D", "M", "I", "N", "a", "b", "n", "P"}
Digits == {"0", "1", "2", "9"}

\* a missing cell of a DataFrame (pandas NaN)
NaN == <<"NaN">>

notna(cell) == cell # NaN

\* str(value): NaN prints as "nan", a string is itself
str(cell) == IF cell = NaN THEN <<"n", "a", "n">> ELSE cell

RECURSIVE lstrip(_)
lstrip(s) == IF s # <<>> /\ Head(s) = " " THEN lstrip(Tail(s)) ELSE s

RECURSIVE rstrip(_)
rstrip(s) ==
    IF s # <<>> /\ s[Len(s)] = " " THEN rstrip(SubSeq(s, 1, Len(s) - 1)) ELSE s

\* str.strip()
strip(s) == rstrip(lstrip(s))

\* re.match(r'^[A-Za-z0-9_-]+$', s)
MatchesIdPattern(s) ==
    s # <<>> /\ \A i \in 1..Len(s) : s[i] \in Letters \cup Digits \cup {"_", "-"}

\* re.match(r'^[A-Za-z\s.,-]+$', s)
MatchesNamePattern(s) ==
    s # <<>> /\ \A i \in 1..Len(s) : s[i] \in Letters \cup {" ", ".", ",", "-"}

RECURSIVE Concat(_)
Concat(ss) == IF ss = <<>> THEN <<>> ELSE Head(ss) \o Concat(Tail(ss))

(***************************************************************************)
(* DataFrames: the uploaded file after pd.read_csv / pd.read_excel.        *)
(* columns is the set of column names, rows the data rows in file order,   *)
(* each a function from the columns to cells.  The files carry none of the *)
(* optional columns (Email, Department, Phone).                            *)
(***************************************************************************)
required_columns == {"Employee ID", "Employee Name", "Cadre", "Project Name"}

NotSpecified == <<"N", "o", "t", " ", "S", "p", "e", "c", "i", "f", "i", "e", "d">>

\* a slip: the cell's text is used without .strip()
Untrimmed(row, col) == IF notna(row[col]) THEN str(row[col]) ELSE <<>>

\* the text of a required cell after trimming ("" for NaN)
Trimmed(row, col) == IF notna(row[col]) THEN strip(str(row[col])) ELSE <<>>

ValidationError(r, c, v, e, s) ==
    [row |-> r, column |-> c, value |-> v, error |-> e, severity |-> s]

\* a slip: the Employee ID length test is off by one (< 2 for < 3)
row_errors_short_id(row, index) ==
    LET emp_id == Trimmed(row, "Employee ID")
        emp_name == Trimmed(row, "Employee Name")
    IN  (IF emp_id = <<>>
            THEN <<ValidationError(index + 1, "Employee ID", emp_id,
                                   "Employee ID cannot be empty", "error")>>
         ELSE IF Len(emp_id) < 2
            THEN <<ValidationError(index + 1, "Employee ID", emp_id,
                                   "Employee ID must be at least 3 characters", "error")>>
         ELSE <<>>)
        \o
        (IF emp_name = <<>>
            THEN <<ValidationError(index + 1, "Employee Name", emp_name,
                                   "Employee Name cannot be empty", "error")>>
         ELSE IF Len(emp_name) < 2
            THEN <<ValidationError(index + 1, "Employee Name", emp_name,
                                   "Employee Name must be at least 2 characters", "error")>>
         ELSE <<>>)

\* the errors one row adds (row_errors); index is the row's 0-based position
row_errors(row, index) ==
    LET emp_id == Trimmed(row, "Employee ID")
        emp_name == Trimmed(row, "Employee Name")
    IN  (IF emp_id = <<>>
            THEN <<ValidationError(index + 1, "Employee ID", emp_id,
                                   "Employee ID cannot be empty", "error")>>
         ELSE IF Len(emp_id) < 3
            THEN <<ValidationError(index + 1, "Employee ID", emp_id,
                                   "Employee ID must be at least 3 characters", "error")>>
         ELSE <<>>)
        \o
        (IF emp_name = <<>>
            THEN <<ValidationError(index + 1, "Employee Name", emp_name,
                                   "Employee Name cannot be empty", "error")>>
         ELSE IF Len(emp_name) < 2
            THEN <<ValidationError(index + 1, "Employee Name", emp_name,
                                   "Employee Name must be at least 2 characters", "error")>>
         ELSE <<>>)

\* the warnings one row adds (row_warnings)
row_warnings(row, index) ==
    LET emp_id == Trimmed(row, "Employee ID")
        emp_name == Trimmed(row, "Employee Name")
        cadre == Trimmed(row, "Cadre")
        project == Trimmed(row, "Project Name")
    IN  (IF Len(emp_id) >= 3 /\ ~MatchesIdPattern(emp_id)
            THEN <<ValidationError(index + 1, "Employee ID", emp_id,
                                   "Employee ID contains special characters", "warning")>>
         ELSE <<>>)
        \o
        (IF Len(emp_name) >= 2 /\ ~MatchesNamePattern(emp_name)
            THEN <<ValidationError(index + 1, "Employee Name", emp_name,
                                   "Employee Name contains unusual characters", "warning")>>
         ELSE <<>>)
        \o
        (IF cadre = <<>>
            THEN <<ValidationError(index + 1, "Cadre", cadre,
                                   "Cadre is empty - will use 'Not Specified'", "warning")>>
         ELSE <<>>)
        \o
        (IF project = <<>>
            THEN <<ValidationError(index + 1, "Project Name", project,
                                   "Project Name is empty - will use 'Not Specified'", "warning")>>
         ELSE <<>>)

\* str(row.get(column, '')).strip() if pd.notna(row.get(column)) else "":
\* empty when the file has no such column or the cell is missing
Optional(row, column) ==
    IF column \in DOMAIN row THEN Trimmed(row, column) ELSE <<>>

\* the record appended to valid_data for a row without errors
valid_record(row) ==
    LET cadre == Trimmed(row, "Cadre")
        project == Trimmed(row, "Project Name")
    IN  [employeeId |-> Trimmed(row, "Employee ID"),
         employeeName |-> Trimmed(row, "Employee Name"),
         cadre |-> IF cadre = <<>> THEN NotSpecified ELSE cadre,
         projectName |-> IF project = <<>> THEN NotSpecified ELSE project,
         email |-> Optional(row, "Email"),
         department |-> Optional(row, "Department"),
         phone |-> Optional(row, "Phone")]

\* Optional[List]: None, or a list
None == [present |-> FALSE, data |-> <<>>]
Some(list) == [present |-> TRUE, data |-> list]

ValidationResult(v, t, n, e, w, p) ==
    [is_valid |-> v, total_rows |-> t, valid_rows |-> n,
     errors |-> e, warnings |-> w, processed_data |-> p]

validate_invitee_csv(df) ==
    LET missing_columns == required_columns \ df.columns
        \* the missing columns in the order of the required_columns list
        order == <<"Employee ID", "Employee Name", "Cadre", "Project Name">>
        missing_errors ==
            Concat([i \in 1..4 |->
                IF order[i] \in missing_columns
                THEN <<ValidationError(0, order[i], <<>>, "Required column is missing", "error")>>
                ELSE <<>>])
        n == Len(df.rows)
        errors == Concat([i \in 1..n |-> row_errors(df.rows[i], i - 1)])
        warnings == Concat([i \in 1..n |-> row_warnings(df.rows[i], i - 1)])
        valid_data ==
            Concat([i \in 1..n |->
                IF row_errors(df.rows[i], i - 1) = <<>>
                THEN <<valid_record(df.rows[i])>> ELSE <<>>])
    IN  IF missing_columns # {}
        THEN ValidationResult(FALSE, n, 0, missing_errors, <<>>, None)
        ELSE ValidationResult(errors = <<>>, n, Len(valid_data), errors, warnings,
                              IF errors = <<>> THEN Some(valid_data) ELSE None)

(***************************************************************************)
(* The database: collections are sequences of documents in insertion       *)
(* order.  find_one and update_one act on the first matching document.     *)
(***************************************************************************)
HasDoc(coll, e) == \E i \in 1..Len(coll) : coll[i].employeeId = e

FirstIndex(coll, e) ==
    CHOOSE i \in 1..Len(coll) :
        coll[i].employeeId = e /\ \A j \in 1..(i - 1) : coll[j].employeeId # e

\* find_one({"employeeId": e}), used where a document matches
find_one(coll, e) == coll[FirstIndex(coll, e)]

\* two documents of the collection share an employeeId
HasDuplicates(coll) ==
    \E i, j \in 1..Len(coll) : i < j /\ coll[i].employeeId = coll[j].employeeId

\* insert_one: with a unique index on employeeId a duplicate key is refused
insert_one(coll, doc, unique) ==
    IF unique /\ HasDoc(coll, doc.employeeId)
    THEN [coll |-> coll, ok |-> FALSE]
    ELSE [coll |-> Append(coll, doc), ok |-> TRUE]

\* insert_many (ordered): documents are inserted in order up to the first
\* duplicate key, which raises BulkWriteError
RECURSIVE insert_many(_, _, _)
insert_many(coll, docs, unique) ==
    IF docs = <<>> THEN [coll |-> coll, ok |-> TRUE]
    ELSE IF unique /\ HasDoc(coll, Head(docs).employeeId)
        THEN [coll |-> coll, ok |-> FALSE]
    ELSE insert_many(Append(coll, Head(docs)), Tail(docs), unique)

\* update_one({"employeeId": e}, {"$set": {"hasResponded": True}})
mark_responded(coll, e) ==
    IF HasDoc(coll, e)
    THEN [coll EXCEPT ![FirstIndex(coll, e)].hasResponded = TRUE]
    ELSE coll

(***************************************************************************)
(* Employees and roster files.                                             *)
(***************************************************************************)
E01 == <<"E", "0", "1">>
E02 == <<"E", "0", "2">>
ADMIN001 == <<"A", "D", "M", "I", "N", "0", "0", "1">>

Employees == {E01, E02, ADMIN001}

\* the employee ids that occur in roster files
RosterIds == {E01, E02}

DataFrame(e, c, r) == [ext |-> e, columns |-> c, rows |-> r]

RosterRow(id) ==
    [c \in required_columns |->
        CASE c = "Employee ID" -> id
          [] c = "Employee Name" -> <<"A", "b">>
          [] c = "Cadre" -> <<"M">>
          [] c = "Project Name" -> <<"P">>]

RosterRows == {RosterRow(id) : id \in RosterIds}

\* the well-formed rosters of at most MaxRoster rows (ids may repeat)
GoodRosters ==
    {DataFrame("csv", required_columns, rows) :
        rows \in UNION {[1..n -> RosterRows] : n \in 0..MaxRoster}}

\* a roster without the Cadre column, one whose second row has a two-character
\* Employee ID, and a file that is neither CSV nor Excel
BadRosters ==
    {DataFrame("csv", required_columns \ {"Cadre"},
               <<[c \in required_columns \ {"Cadre"} |-> RosterRow(E01)[c]]>>),
     DataFrame("xlsx", required_columns,
               <<RosterRow(E01), [RosterRow(E02) EXCEPT !["Employee ID"] = <<"E", "2">>]>>),
     DataFrame("txt", required_columns, <<RosterRow(E01)>>)}

RosterFiles == GoodRosters \cup BadRosters

\* a roster row with the optional Phone column
PhoneRow(id, phone) ==
    [c \in required_columns \cup {"Phone"} |->
        IF c = "Phone" THEN phone ELSE RosterRow(id)[c]]

\* rosters with a Phone column: E01 with a number, E02 with an empty cell
PhoneRosters ==
    {DataFrame("csv", required_columns \cup {"Phone"}, <<PhoneRow(E01, <<"9", "1">>)>>),
     DataFrame("csv", required_columns \cup {"Phone"},
               <<PhoneRow(E01, <<"9", "1">>), PhoneRow(E02, NaN)>>)}

\* validate_invitee_csv of every roster file, computed once
roster_validation ==
    [file \in RosterFiles \cup PhoneRosters |-> validate_invitee_csv(file)]

\* file.filename.endswith(('.csv', '.xlsx'))
IsSpreadsheet(file) == file.ext \in {"csv", "xlsx"}

(***************************************************************************)
(* State.                                                                  *)
(***************************************************************************)
VARIABLES
    invitees,    \* db.invitees
    responses,   \* db.responses
    users,       \* db.users
    indexes,     \* which unique indexes on employeeId exist
    pc,          \* per request slot: the await the handler is at, or "idle"
    arg,         \* per request slot: the handler's local variables
    last,        \* the HTTP response the latest step sent (NoResponse if none)
    budget,      \* requests an interleaved run may still begin
    now,         \* the clock (datetime.utcnow), in token lifetimes
    tokens,      \* the access tokens issued so far (held by clients)
    loggedOut,   \* the tokens for which logout has answered
    frame,       \* the DataFrame handed to validate_invitee_csv on its own
    validation,  \* the ValidationResult it returned, once it has
    gallery_photos,  \* db.gallery_photos
    agendas,         \* db.agendas
    cab_allocations, \* db.cab_allocations
    export_tasks,    \* ExcelExportService.export_tasks
    returned,        \* the export ids that the export functions have returned
    cache,           \* PerformanceService.cache
    cache_ttl,       \* PerformanceService.cache_ttl
    performance_metrics, \* PerformanceService.performance_metrics
    stored,          \* per cache key: what set_cached_data stored last, and when
    lookups,         \* the number of get_cached_data calls made
    feedback,        \* db.feedback
    documents,       \* db.documents
    message_logs,    \* db.message_logs
    bulk_message_logs \* db.bulk_message_logs

vars == <<invitees, responses, users, indexes, pc, arg, last, budget,
          now, tokens, loggedOut, frame, validation,
          gallery_photos, agendas, cab_allocations, export_tasks, returned,
          cache, cache_ttl, performance_metrics, stored, lookups, feedback,
          documents, message_logs, bulk_message_logs>>

db == <<invitees, responses, users, indexes>>
slots == <<pc, arg>>
auth == <<now, tokens, loggedOut>>
csv == <<frame, validation>>
\* the collections and service state that the roster, RSVP and
\* authentication handlers never touch
media == <<gallery_photos, agendas>>
caching == <<cache, cache_ttl, performance_metrics, stored, lookups>>
exports == <<export_tasks, returned>>
ext == <<media, cab_allocations, exports, caching, feedback,
         documents, message_logs, bulk_message_logs>>

NotValidated == [done |-> FALSE]
Validated(vr) == [done |-> TRUE, result |-> vr]

\* an HTTP response.  inner is the status of the HTTPException that the
\* handler's blanket `except Exception` re-wrapped (0 when there was none)
Response(op, status, detail, inner, body) ==
    [op |-> op, status |-> status, detail |-> detail, inner |-> inner, body |-> body]

NoResponse == Response("none", 0, "", 0, <<>>)

NoArg == [emp |-> <<>>, docs |-> <<>>]

Idle(r) == pc[r] = "idle"

\* a new request takes the lowest free slot
Free(r) == Idle(r) /\ \A q \in 1..(r - 1) : ~Idle(q)

\* the handler in slot r goes on to its next await
Goto(r, label, a) ==
    /\ pc' = [pc EXCEPT ![r] = label]
    /\ arg' = [arg EXCEPT ![r] = a]
    /\ last' = NoResponse

\* the handler in slot r returns (or raises) and the response is sent
Reply(r, resp) ==
    /\ pc' = [pc EXCEPT ![r] = "idle"]
    /\ arg' = [arg EXCEPT ![r] = NoArg]
    /\ last' = resp

\* cache keys, as the characters that clear_cache matches a pattern against
CacheKeys == {<<"d", "a", "s", "h">>, <<"d", "a", "t", "a">>}

\* a dictionary with no entry
EmptyDict == [k \in {} |-> 0]

InitCaching ==
    /\ cache = EmptyDict
    /\ cache_ttl = EmptyDict
    /\ performance_metrics = [cache_hits |-> 0, cache_misses |-> 0]
    /\ stored = [k \in CacheKeys |-> [set |-> FALSE]]
    /\ lookups = 0

InitExt ==
    /\ gallery_photos = <<>>
    /\ agendas = <<>>
    /\ cab_allocations = <<>>
    /\ export_tasks = <<>>
    /\ returned = {}
    /\ InitCaching
    /\ feedback = <<>>
    /\ documents = <<>>
    /\ message_logs = <<>>
    /\ bulk_message_logs = <<>>

Init ==
    /\ InitExt
    /\ invitees = <<>>
    /\ responses = <<>>
    /\ users = <<>>
    /\ indexes = [invitees |-> FALSE, responses |-> FALSE, users |-> FALSE]
    /\ pc = [r \in Reqs |-> "idle"]
    /\ arg = [r \in Reqs |-> NoArg]
    /\ last = NoResponse
    /\ budget = MaxRequests
    /\ now = 0
    /\ tokens = {}
    /\ loggedOut = {}
    /\ frame = DataFrame("csv", required_columns, <<>>)
    /\ validation = NotValidated

(***************************************************************************)
(* POST /responses                                                         *)
(***************************************************************************)
\* the Response document built from ResponseCreate (the RSVP fields are
\* copied from the request unchanged and are left out)
ResponseDoc(e) == [employeeId |-> e]

\* find_one on invitees; "Invitee not found" is raised inside the try block
\* and re-wrapped by `except Exception`
submit_response_find_invitee(r, e) ==
    /\ Free(r)
    /\ IF HasDoc(invitees, e)
       THEN Goto(r, "sr_find_response", [NoArg EXCEPT !.emp = e])
       ELSE Reply(r, Response("submit_response", 500, "Invitee not found", 404,
                              [employeeId |-> e]))
    /\ UNCHANGED <<invitees, responses, users, indexes>>

submit_response_find_response(r) ==
    /\ pc[r] = "sr_find_response"
    /\ IF HasDoc(responses, arg[r].emp)
       THEN Reply(r, Response("submit_response", 500, "Response already submitted", 400,
                              [employeeId |-> arg[r].emp]))
       ELSE Goto(r, "sr_insert", arg[r])
    /\ UNCHANGED <<invitees, responses, users, indexes>>

submit_response_insert(r) ==
    /\ pc[r] = "sr_insert"
    /\ LET ins == insert_one(responses, ResponseDoc(arg[r].emp), indexes.responses)
       IN  /\ responses' = ins.coll
           /\ IF ins.ok
              THEN Goto(r, "sr_update", arg[r])
              ELSE Reply(r, Response("submit_response", 500, "DuplicateKeyError", 0,
                                     [employeeId |-> arg[r].emp]))
    /\ UNCHANGED <<invitees, users, indexes>>

submit_response_update(r) ==
    /\ pc[r] = "sr_update"
    /\ invitees' = mark_responded(invitees, arg[r].emp)
    /\ Reply(r, Response("submit_response", 200, "Response submitted successfully", 0,
                         [employeeId |-> arg[r].emp]))
    /\ UNCHANGED <<responses, users, indexes>>

\* GET /invitees/unresponded: find({"hasResponded": False}).to_list(1000)
ToListLimit == 1000

get_unresponded_invitees(coll) ==
    LET open == SelectSeq(coll, LAMBDA d : ~d.hasResponded)
        listed == SubSeq(open, 1, IF Len(open) < ToListLimit THEN Len(open) ELSE ToListLimit)
    IN  [i \in 1..Len(listed) |->
            [employeeId |-> listed[i].employeeId, employeeName |-> listed[i].employeeName,
             cadre |-> listed[i].cadre, projectName |-> listed[i].projectName]]

(***************************************************************************)
(* POST /invitees/bulk-upload                                              *)
(***************************************************************************)
\* the invitee document built from one row: str() of each cell, untrimmed
bulk_invitee(row) ==
    [employeeId |-> str(row["Employee ID"]),
     employeeName |-> str(row["Employee Name"]),
     cadre |-> str(row["Cadre"]),
     projectName |-> str(row["Project Name"]),
     hasResponded |-> FALSE]

bulk_invitees(df) == [i \in 1..Len(df.rows) |-> bulk_invitee(df.rows[i])]

bulk_upload_invitees_read(r, file) ==
    /\ Free(r)
    /\ IF ~IsSpreadsheet(file)
       THEN Reply(r, Response("bulk_upload_invitees", 500,
                              "File must be CSV or Excel format", 400, <<>>))
       ELSE IF ~(required_columns \subseteq file.columns)
       THEN Reply(r, Response("bulk_upload_invitees", 500,
                              "CSV must contain columns", 400, <<>>))
       ELSE Goto(r, "bu_delete", [NoArg EXCEPT !.docs = bulk_invitees(file)])
    /\ UNCHANGED <<invitees, responses, users, indexes>>

\* a slip: the existing invitees are not cleared
bulk_upload_invitees_keep(r) ==
    /\ pc[r] = "bu_delete"
    /\ Goto(r, "bu_insert", arg[r])
    /\ UNCHANGED <<invitees, responses, users, indexes>>

\* delete_many({})
bulk_upload_invitees_delete(r) ==
    /\ pc[r] = "bu_delete"
    /\ invitees' = <<>>
    /\ Goto(r, "bu_insert", arg[r])
    /\ UNCHANGED <<responses, users, indexes>>

\* insert_many(invitees); an empty list raises TypeError before any write
bulk_upload_invitees_insert(r) ==
    /\ pc[r] = "bu_insert"
    /\ IF arg[r].docs = <<>>
       THEN /\ UNCHANGED invitees
            /\ Reply(r, Response("bulk_upload_invitees", 500,
                                 "documents must be a non-empty list", 0, <<>>))
       ELSE LET ins == insert_many(invitees, arg[r].docs, indexes.invitees)
            IN  /\ invitees' = ins.coll
                /\ IF ins.ok
                   THEN Reply(r, Response("bulk_upload_invitees", 200,
                                          "Successfully uploaded", 0,
                                          [inserted_count |-> Len(arg[r].docs)]))
                   ELSE Reply(r, Response("bulk_upload_invitees", 500,
                                          "BulkWriteError", 0, <<>>))
    /\ UNCHANGED <<responses, users, indexes>>

(***************************************************************************)
(* POST /invitees/bulk-upload-enhanced                                     *)
(***************************************************************************)
\* the invitee document built from one record of processed_data (importedAt,
\* a timestamp, is left out)
enhanced_invitee(data) ==
    [employeeId |-> data.employeeId,
     employeeName |-> data.employeeName,
     cadre |-> data.cadre,
     projectName |-> data.projectName,
     email |-> data.email,
     department |-> data.department,
     phone |-> data.phone,
     hasResponded |-> FALSE]

enhanced_invitees(processed) == [i \in 1..Len(processed) |-> enhanced_invitee(processed[i])]

\* the body returned when validation fails
validation_failed(vr) ==
    [success |-> FALSE, validation_result |-> vr, inserted_count |-> 0]

bulk_upload_invitees_enhanced_read(r, file) ==
    /\ Free(r)
    /\ IF ~IsSpreadsheet(file)
       THEN Reply(r, Response("bulk_upload_invitees_enhanced", 500,
                              "File must be CSV or Excel format", 400, <<>>))
       ELSE LET vr == roster_validation[file]
            IN  IF ~vr.is_valid
                THEN Reply(r, Response("bulk_upload_invitees_enhanced", 200,
                                       "Validation failed", 0, validation_failed(vr)))
                ELSE IF vr.processed_data.present /\ vr.processed_data.data # <<>>
                THEN Goto(r, "en_delete",
                          [NoArg EXCEPT !.docs = enhanced_invitees(vr.processed_data.data)])
                ELSE Reply(r, Response("bulk_upload_invitees_enhanced", 500,
                                       "No valid data to import", 400, <<>>))
    /\ UNCHANGED <<invitees, responses, users, indexes>>

bulk_upload_invitees_enhanced_delete(r) ==
    /\ pc[r] = "en_delete"
    /\ invitees' = <<>>
    /\ Goto(r, "en_insert", arg[r])
    /\ UNCHANGED <<responses, users, indexes>>

bulk_upload_invitees_enhanced_insert(r) ==
    /\ pc[r] = "en_insert"
    /\ LET ins == insert_many(invitees, arg[r].docs, indexes.invitees)
       IN  /\ invitees' = ins.coll
           /\ IF ins.ok
              THEN Reply(r, Response("bulk_upload_invitees_enhanced", 200,
                                     "Successfully uploaded", 0,
                                     [success |-> TRUE, inserted_count |-> Len(arg[r].docs)]))
              ELSE Reply(r, Response("bulk_upload_invitees_enhanced", 500,
                                     "BulkWriteError", 0, <<>>))
    /\ UNCHANGED <<responses, users, indexes>>

(***************************************************************************)
(* Passwords and users.                                                    *)
(***************************************************************************)
\* hashlib.sha256(password.encode()).hexdigest(): a digest, never the
\* password itself, and different passwords have different digests
hash_password(password) == [sha256 |-> password]

\* a slip: the stored hash is never compared
verify_password_unchecked(plain_password, hashed_password) ==
    hash_password(plain_password) = hash_password(plain_password)

verify_password(plain_password, hashed_password) ==
    hash_password(plain_password) = hashed_password

admin123 == <<"a", "d", "m", "i", "n", "1", "2", "3">>

admin_data ==
    [employeeId |-> ADMIN001,
     employeeName |-> <<"S", "y", "s">>,
     password |-> hash_password(admin123),
     role |-> "admin",
     isFirstLogin |-> FALSE,
     mustChangePassword |-> FALSE,
     officeType |-> "Head Office",
     lastLogin |-> -1,
     isActive |-> TRUE]

admin_invitee ==
    [employeeId |-> ADMIN001,
     employeeName |-> <<"S", "y", "s">>,
     cadre |-> <<"A", "d", "m">>,
     projectName |-> <<"P", "M">>,
     hasResponded |-> TRUE]

HasAdmin(coll) == \E i \in 1..Len(coll) : coll[i].role = "admin"

(***************************************************************************)
(* POST /auth/create-admin                                                 *)
(***************************************************************************)
create_initial_admin_find(r) ==
    /\ Free(r)
    /\ IF HasAdmin(users)
       THEN Reply(r, Response("create_initial_admin", 200, "Admin user already exists", 0,
                              [admin_exists |-> TRUE]))
       ELSE Goto(r, "ad_insert_user", NoArg)
    /\ UNCHANGED <<invitees, responses, users, indexes>>

create_initial_admin_insert_user(r) ==
    /\ pc[r] = "ad_insert_user"
    /\ LET ins == insert_one(users, admin_data, indexes.users)
       IN  /\ users' = ins.coll
           /\ IF ins.ok
              THEN Goto(r, "ad_insert_invitee", arg[r])
              ELSE Reply(r, Response("create_initial_admin", 500,
                                     "Failed to create admin user", 0, <<>>))
    /\ UNCHANGED <<invitees, responses, indexes>>

create_initial_admin_insert_invitee(r) ==
    /\ pc[r] = "ad_insert_invitee"
    /\ LET ins == insert_one(invitees, admin_invitee, indexes.invitees)
       IN  /\ invitees' = ins.coll
           /\ IF ins.ok
              THEN Reply(r, Response("create_initial_admin", 200,
                                     "Initial admin user created successfully", 0,
                                     [admin_exists |-> FALSE]))
              ELSE Reply(r, Response("create_initial_admin", 500,
                                     "Failed to create admin user", 0, <<>>))
    /\ UNCHANGED <<responses, users, indexes>>

(***************************************************************************)
(* POST /performance/optimize-database                                     *)
(***************************************************************************)
\* create_index("employeeId", unique=True) on invitees, then responses, then
\* users: building a unique index over duplicate keys fails and ends the
\* sequence, leaving the indexes built so far
create_database_indexes(idx, inv, resp, usr) ==
    LET inv_ok == idx.invitees \/ ~HasDuplicates(inv)
        resp_ok == inv_ok /\ (idx.responses \/ ~HasDuplicates(resp))
        usr_ok == resp_ok /\ (idx.users \/ ~HasDuplicates(usr))
    IN  [invitees |-> inv_ok, responses |-> idx.responses \/ resp_ok,
         users |-> idx.users \/ usr_ok, success |-> usr_ok]

optimize_database(r) ==
    /\ Free(r)
    /\ LET made == create_database_indexes(indexes, invitees, responses, users)
       IN  /\ indexes' = [invitees |-> made.invitees, responses |-> made.responses,
                          users |-> made.users]
           /\ IF made.success
              THEN Reply(r, Response("optimize_database", 200,
                                     "Database optimization completed successfully", 0, <<>>))
              ELSE Reply(r, Response("optimize_database", 500,
                                     "Database optimization failed", 500, <<>>))
    /\ UNCHANGED <<invitees, responses, users>>

(***************************************************************************)
(* The roster and RSVP handlers, interleaved at their awaits.              *)
(***************************************************************************)
Step(r, files, emps) ==
    \/ \E e \in emps : submit_response_find_invitee(r, e)
    \/ submit_response_find_response(r)
    \/ submit_response_insert(r)
    \/ submit_response_update(r)
    \/ \E file \in files : bulk_upload_invitees_read(r, file)
    \/ bulk_upload_invitees_delete(r)
    \/ bulk_upload_invitees_insert(r)
    \/ \E file \in files : bulk_upload_invitees_enhanced_read(r, file)
    \/ bulk_upload_invitees_enhanced_delete(r)
    \/ bulk_upload_invitees_enhanced_insert(r)
    \/ create_initial_admin_find(r)
    \/ create_initial_admin_insert_user(r)
    \/ create_initial_admin_insert_invitee(r)
    \/ optimize_database(r)

\* any interleaving of at most MaxRequests requests
Next ==
    \E r \in Reqs :
        /\ Step(r, RosterFiles, Employees)
        /\ Idle(r) => budget > 0
        /\ budget' = IF Idle(r) THEN budget - 1 ELSE budget
        /\ UNCHANGED <<auth, csv, ext>>

Spec == Init /\ [][Next]_vars

\* one request at a time: a handler runs from its first await to its reply
\* with no other request in flight
NextSeq ==
    \E r \in Reqs :
        /\ Step(r, RosterFiles, Employees)
        /\ \A q \in Reqs \ {r} : Idle(q)
        /\ UNCHANGED <<budget, auth, csv, ext>>

SpecSeq == Init /\ [][NextSeq]_vars

(***************************************************************************)
(* Authentication.  The handlers of this section run one at a time.        *)
(***************************************************************************)
\* access_token_expire_minutes (60 * 24), the unit of the clock
access_token_expire == 1

\* create_access_token: the claims, signed with the server's key
create_access_token(sub, role, t) ==
    [sub |-> sub, role |-> role, exp |-> t + access_token_expire, signed |-> TRUE]

\* a token that was not signed with the server's key
ForgedToken == [sub |-> E01, role |-> "admin", exp |-> MaxTime + 1, signed |-> FALSE]

\* verify_access_token: jwt.decode returns the payload of a token with a valid
\* signature that has not expired and raises otherwise
verify_access_token(token, t) == token.signed /\ token.exp > t

\* the user document create_user_from_invitee inserts
user_from_invitee(invitee) ==
    [employeeId |-> invitee.employeeId,
     employeeName |-> invitee.employeeName,
     password |-> hash_password(invitee.employeeId),
     role |-> "invitee",
     isFirstLogin |-> TRUE,
     mustChangePassword |-> TRUE,
     officeType |-> "None",
     lastLogin |-> -1,
     isActive |-> TRUE]

\* create_user_from_invitee: the users collection afterwards
create_user_from_invitee(usr, inv, employee_code) ==
    IF HasDoc(inv, employee_code) /\ ~HasDoc(usr, employee_code)
    THEN Append(usr, user_from_invitee(find_one(inv, employee_code)))
    ELSE usr

\* authenticate_user: the users collection afterwards and the outcome,
\* "user" (the user is returned), "none" (None is returned) or "disabled"
\* (HTTPException 403)
authenticate_user(usr, inv, employee_code, password, t) ==
    LET usr1 == IF HasDoc(usr, employee_code) THEN usr
                ELSE create_user_from_invitee(usr, inv, employee_code)
    IN  IF ~HasDoc(usr1, employee_code)
        THEN [users |-> usr1, outcome |-> "none"]
        ELSE LET user == find_one(usr1, employee_code)
             IN  IF ~user.isActive
                 THEN [users |-> usr1, outcome |-> "disabled"]
                 ELSE IF ~verify_password(password, user.password)
                 THEN [users |-> usr1, outcome |-> "none"]
                 ELSE [users |-> [usr1 EXCEPT ![FirstIndex(usr1, employee_code)].lastLogin = t],
                       outcome |-> "user"]

AllIdle == \A r \in Reqs : Idle(r)

\* an answer of an authentication handler
Answer(resp) == last' = resp /\ UNCHANGED <<invitees, responses, indexes, slots, budget>>

\* POST /auth/login
login(employeeCode, password) ==
    /\ AllIdle
    /\ Cardinality(tokens) < MaxTokens
    /\ LET a == authenticate_user(users, invitees, employeeCode, password, now)
       IN  /\ users' = a.users
           /\ IF a.outcome = "user"
              THEN LET user == find_one(a.users, employeeCode)
                       token == create_access_token(employeeCode, user.role, now)
                   IN  /\ tokens' = tokens \cup {token}
                       /\ Answer(Response("login", 200, "bearer", 0,
                                 [employeeCode |-> employeeCode, password |-> password,
                                  access_token |-> token]))
              ELSE /\ UNCHANGED tokens
                   /\ Answer(Response("login",
                                 IF a.outcome = "disabled" THEN 403 ELSE 401,
                                 IF a.outcome = "disabled" THEN "Account is disabled"
                                 ELSE "Invalid employee code or password", 0,
                                 [employeeCode |-> employeeCode, password |-> password]))
    /\ UNCHANGED <<now, loggedOut>>

\* a slip: the new password is stored without being hashed
change_password_unhashed(employeeCode, oldPassword, newPassword) ==
    /\ AllIdle
    /\ LET body == [employeeCode |-> employeeCode, oldPassword |-> oldPassword,
                    newPassword |-> newPassword]
       IN  IF ~HasDoc(users, employeeCode)
           THEN /\ UNCHANGED users
                /\ Answer(Response("change_password", 404, "User not found", 0, body))
           ELSE IF ~verify_password(oldPassword, find_one(users, employeeCode).password)
           THEN /\ UNCHANGED users
                /\ Answer(Response("change_password", 400,
                                   "Current password is incorrect", 0, body))
           ELSE /\ users' = [users EXCEPT ![FirstIndex(users, employeeCode)] =
                                [@ EXCEPT !.password = [plain |-> newPassword],
                                          !.mustChangePassword = FALSE,
                                          !.isFirstLogin = FALSE]]
                /\ Answer(Response("change_password", 200,
                                   "Password changed successfully", 0, body))
    /\ UNCHANGED auth

\* POST /auth/change-password
change_password(employeeCode, oldPassword, newPassword) ==
    /\ AllIdle
    /\ LET body == [employeeCode |-> employeeCode, oldPassword |-> oldPassword,
                    newPassword |-> newPassword]
       IN  IF ~HasDoc(users, employeeCode)
           THEN /\ UNCHANGED users
                /\ Answer(Response("change_password", 404, "User not found", 0, body))
           ELSE IF ~verify_password(oldPassword, find_one(users, employeeCode).password)
           THEN /\ UNCHANGED users
                /\ Answer(Response("change_password", 400,
                                   "Current password is incorrect", 0, body))
           ELSE /\ users' = [users EXCEPT ![FirstIndex(users, employeeCode)] =
                                [@ EXCEPT !.password = hash_password(newPassword),
                                          !.mustChangePassword = FALSE,
                                          !.isFirstLogin = FALSE]]
                /\ Answer(Response("change_password", 200,
                                   "Password changed successfully", 0, body))
    /\ UNCHANGED auth

\* GET /auth/me
get_current_user(token) ==
    /\ AllIdle
    /\ IF ~verify_access_token(token, now)
       THEN Answer(Response("get_current_user", 401, "Token verification failed", 0,
                            [token |-> token]))
       ELSE IF ~HasDoc(users, token.sub)
       THEN Answer(Response("get_current_user", 404, "User not found", 0, [token |-> token]))
       ELSE Answer(Response("get_current_user", 200, "", 0, [token |-> token]))
    /\ UNCHANGED <<users, auth>>

\* POST /auth/logout: the token is verified only to log the activity; no
\* record of the token is kept
logout(token) ==
    /\ AllIdle
    /\ loggedOut' = loggedOut \cup {token}
    /\ Answer(Response("logout", 200, "Logged out successfully", 0, [token |-> token]))
    /\ UNCHANGED <<users, now, tokens>>

\* time passes
Tick ==
    /\ now < MaxTime
    /\ now' = now + 1
    /\ last' = NoResponse
    /\ UNCHANGED <<db, slots, budget, tokens, loggedOut>>

\* what clients send
EmployeeCodes == {E01, ADMIN001, <<"X", "9", "9">>}
Passwords == {E01, admin123, <<"n", "e", "w">>}
PresentedTokens == tokens \cup {ForgedToken}

\* the roster of two invitees, as bulk_upload_invitees stores it
InitAuth ==
    /\ InitExt
    /\ invitees = bulk_invitees(DataFrame("csv", required_columns, <<RosterRow(E01), RosterRow(E02)>>))
    /\ responses = <<>>
    /\ users = <<>>
    /\ indexes = [invitees |-> FALSE, responses |-> FALSE, users |-> FALSE]
    /\ pc = [r \in Reqs |-> "idle"]
    /\ arg = [r \in Reqs |-> NoArg]
    /\ last = NoResponse
    /\ budget = MaxRequests
    /\ now = 0
    /\ tokens = {}
    /\ loggedOut = {}
    /\ frame = DataFrame("csv", required_columns, <<>>)
    /\ validation = NotValidated

CreateAdmin(r) ==
    /\ \/ create_initial_admin_find(r)
       \/ create_initial_admin_insert_user(r)
       \/ create_initial_admin_insert_invitee(r)
    /\ \A q \in Reqs \ {r} : Idle(q)
    /\ UNCHANGED <<budget, auth, csv>>

NextAuth ==
    /\ UNCHANGED <<csv, ext>>
    /\ \/ \E e \in EmployeeCodes, p \in Passwords : login(e, p)
       \/ \E e \in EmployeeCodes, old \in Passwords, new \in Passwords :
              change_password(e, old, new)
       \/ \E token \in PresentedTokens : get_current_user(token)
       \/ \E token \in PresentedTokens : logout(token)
       \/ \E r \in Reqs : CreateAdmin(r)
       \/ Tick

SpecAuth == InitAuth /\ [][NextAuth]_vars

(***************************************************************************)
(* validate_invitee_csv on its own, over every DataFrame of at most        *)
(* MaxRows rows whose cells are drawn from the sets below and whose        *)
(* columns are any subset of the required ones.                            *)
(***************************************************************************)
\* NaN, a two-character id padded with blanks, a clean id, an id with a
\* special character and a leading blank
IdCells == {NaN, <<" ", "E", "1", " ">>, <<"E", "0", "1">>, <<" ", "E", "#", "2">>}
\* a one-character name followed by a blank, a clean name, a name with a digit
NameCells == {<<"A", " ">>, <<"A", "b">>, <<"A", "9">>}
CadreCells == {NaN, <<"M">>}
ProjectCells == {<<" ">>, <<"P">>}

FullRows ==
    {[c \in required_columns |->
        CASE c = "Employee ID" -> id
          [] c = "Employee Name" -> name
          [] c = "Cadre" -> cadre
          [] c = "Project Name" -> project] :
     id \in IdCells, name \in NameCells, cadre \in CadreCells, project \in ProjectCells}

CsvRows(cols) == {[c \in cols |-> full[c]] : full \in FullRows}

\* the column headers of a file
CsvHeaders == {DataFrame("csv", cols, <<>>) : cols \in SUBSET required_columns}

InitCsv ==
    /\ InitExt
    /\ invitees = <<>>
    /\ responses = <<>>
    /\ users = <<>>
    /\ indexes = [invitees |-> FALSE, responses |-> FALSE, users |-> FALSE]
    /\ pc = [r \in Reqs |-> "idle"]
    /\ arg = [r \in Reqs |-> NoArg]
    /\ last = NoResponse
    /\ budget = MaxRequests
    /\ now = 0
    /\ tokens = {}
    /\ loggedOut = {}
    /\ frame \in CsvHeaders
    /\ validation = NotValidated

\* the file is put together row by row before it is validated
AddRow(row) ==
    /\ ~validation.done
    /\ Len(frame.rows) < MaxRows
    /\ frame' = [frame EXCEPT !.rows = Append(@, row)]
    /\ UNCHANGED <<db, slots, last, budget, auth, validation, ext>>

Validate ==
    /\ ~validation.done
    /\ validation' = Validated(validate_invitee_csv(frame))
    /\ UNCHANGED <<db, slots, last, budget, auth, frame, ext>>

NextCsv ==
    \/ \E row \in CsvRows(frame.columns) : AddRow(row)
    \/ Validate

SpecCsv == InitCsv /\ [][NextCsv]_vars

(***************************************************************************)
(* Properties.                                                             *)
(***************************************************************************)
CountFor(coll, e) == Cardinality({i \in 1..Len(coll) : coll[i].employeeId = e})

\* C1: under any interleaving of submit_response requests the responses
\* collection holds at most one response document per employeeId.
C1_OneResponsePerEmployee == \A e \in Employees : CountFor(responses, e) <= 1

\* C2: submit_response answers 404 "Invitee not found" when the employeeId is
\* not on the roster and 400 "Response already submitted" when a response for
\* it is stored; in both cases no response is inserted and no hasResponded
\* flag changes.
C2_RejectedSubmissions ==
    [][\A r \in Reqs :
        /\ \A e \in Employees :
              (submit_response_find_invitee(r, e) /\ ~HasDoc(invitees, e))
              => /\ last'.status = 404
                 /\ last'.detail = "Invitee not found"
                 /\ responses' = responses
                 /\ invitees' = invitees
        /\ (submit_response_find_response(r) /\ HasDoc(responses, arg[r].emp))
           => /\ last'.status = 400
              /\ last'.detail = "Response already submitted"
              /\ responses' = responses
              /\ invitees' = invitees]_vars

\* the employeeIds GET /invitees/unresponded lists
Unresponded(coll) ==
    LET listed == get_unresponded_invitees(coll)
    IN  {listed[j].employeeId : j \in 1..Len(listed)}

\* C3: when submit_response succeeds for invitee e, a response for e is stored,
\* invitee e has hasResponded = true, and get_unresponded_invitees called next
\* does not list e while it lists every invitee that has not responded.
C3_SubmitMarksResponded ==
    (last.op = "submit_response" /\ last.status = 200)
    => LET e == last.body.employeeId
       IN  /\ HasDoc(responses, e)
           /\ \A i \in 1..Len(invitees) :
                 invitees[i].employeeId = e => invitees[i].hasResponded
           /\ e \notin Unresponded(invitees)
           /\ \A i \in 1..Len(invitees) :
                 ~invitees[i].hasResponded
                 => invitees[i].employeeId \in Unresponded(invitees)

TrimmedText(cell) == IF cell = NaN THEN <<>> ELSE strip(cell)

\* the row has an Employee ID of at least 3 characters and an Employee Name of
\* at least 2, after trimming
RowOk(row) ==
    /\ Len(TrimmedText(row["Employee ID"])) >= 3
    /\ Len(TrimmedText(row["Employee Name"])) >= 2

\* a required column is missing or some row is not RowOk

FileHasErrors(file) ==
    \/ ~(required_columns \subseteq file.columns)
    \/ \E i \in 1..Len(file.rows) : ~RowOk(file.rows[i])

\* C5: bulk_upload_invitees_enhanced, given a CSV or Excel file that lacks a
\* required column or has a row-level error, returns success = false with a
\* non-empty errors list and leaves the invitees collection as it was.
C5_InvalidFileStoresNothing ==
    [][\A r \in Reqs : \A file \in RosterFiles :
        (bulk_upload_invitees_enhanced_read(r, file) /\ IsSpreadsheet(file)
            /\ FileHasErrors(file))
        => /\ last'.op = "bulk_upload_invitees_enhanced"
           /\ last'.status = 200
           /\ last'.body.success = FALSE
           /\ last'.body.validation_result.errors # <<>>
           /\ invitees' = invitees
           /\ pc'[r] = "idle"]_vars

\* C5 witness: a file was refused while a roster was stored.
C5_Witness ==
    /\ last.op = "bulk_upload_invitees_enhanced"
    /\ last.status = 200
    /\ ~last.body.success
    /\ last.body.validation_result.errors # <<>>
    /\ invitees # <<>>

\* the rows of an n-row file that no entry of the errors list names
RowsWithoutErrors(vr, n) ==
    {i \in 1..n : \A k \in 1..Len(vr.errors) : vr.errors[k].row # i}

\* is_valid, warnings and processed_data as C6 states them
C6_Common(file, vr) ==
    LET all_columns == required_columns \subseteq file.columns
        n == Len(file.rows)
    IN  /\ vr.is_valid <=> (all_columns /\ \A i \in 1..n : RowOk(file.rows[i]))
        /\ vr.errors = <<>> => vr.is_valid
        /\ vr.processed_data.present <=> vr.is_valid
        /\ vr.processed_data.present
           => /\ Len(vr.processed_data.data) = n
              /\ \A i \in 1..n :
                    /\ vr.processed_data.data[i].employeeId
                         = TrimmedText(file.rows[i]["Employee ID"])
                    /\ vr.processed_data.data[i].employeeName
                         = TrimmedText(file.rows[i]["Employee Name"])

\* C6 (as stated): is_valid holds exactly when the four required columns are
\* present and every row has a trimmed Employee ID of at least 3 characters
\* and a trimmed Employee Name of at least 2; valid_rows is the number of rows
\* without errors; warnings never make a file invalid; processed_data is
\* present exactly when is_valid, one record per row in file order.
C6_AsStated ==
    validation.done
    => /\ C6_Common(frame, validation.result)
       /\ validation.result.valid_rows
            = Cardinality(RowsWithoutErrors(validation.result, Len(frame.rows)))

\* C6 (amended): as stated, except that valid_rows is the number of rows
\* without errors only when all four required columns are present, and is 0
\* when a required column is missing.
C6_ValidRowsWhenColumnsPresent ==
    validation.done
    => /\ C6_Common(frame, validation.result)
       /\ validation.result.valid_rows
            = IF required_columns \subseteq frame.columns
              THEN Cardinality(RowsWithoutErrors(validation.result, Len(frame.rows)))
              ELSE 0

\* C6 witness: a full-length file with a row in error and a row that only has
\* a warning has been validated.
C6_Witness ==
    /\ validation.done
    /\ required_columns \subseteq frame.columns
    /\ Len(frame.rows) = MaxRows
    /\ validation.result.valid_rows = MaxRows - 1
    /\ validation.result.warnings # <<>>
    /\ ~validation.result.is_valid

\* C7: no two documents of the invitees collection share an employeeId.
C7_UniqueInvitees == ~HasDuplicates(invitees)

\* C8: authenticate_user returns a user, and login issues a token, only if the
\* SHA-256 hash of the password equals the hash stored for the employee code
\* and the account is not disabled; a wrong password and an employee code that
\* is neither a user nor an invitee get no user; an invitee without a user
\* record logs in the first time with the employee code as password.
C8_LoginNeedsPassword ==
    [][\A e \in EmployeeCodes, p \in Passwords :
        login(e, p)
        => /\ last'.status = 200
              => /\ HasDoc(users', e)
                 /\ find_one(users', e).password = hash_password(p)
                 /\ find_one(users', e).isActive
                 /\ last'.body.access_token \in tokens'
                 /\ last'.body.access_token.sub = e
           /\ last'.status # 200 => tokens' = tokens
           /\ (HasDoc(users, e) /\ find_one(users, e).password # hash_password(p))
              => last'.status = 401
           /\ (~HasDoc(users, e) /\ ~HasDoc(invitees, e)) => last'.status = 401
           /\ (~HasDoc(users, e) /\ HasDoc(invitees, e) /\ p = e)
              => last'.status = 200]_vars

\* C8 witness: an invitee has logged in for the first time with the employee
\* code as password.
C8_Witness ==
    /\ last.op = "login"
    /\ last.status = 200
    /\ last.body.employeeCode = E01
    /\ last.body.password = E01
    /\ find_one(users, E01).isFirstLogin

\* C9: after change_password(e, old, new) succeeds, authenticate_user(e, new)
\* succeeds, authenticate_user(e, old) fails when old differs from new, and
\* mustChangePassword and isFirstLogin are false; when old does not match the
\* stored password the call is rejected with 400 and the user is unchanged.
C9_ChangePassword ==
    [][\A e \in EmployeeCodes, old \in Passwords, new \in Passwords :
        change_password(e, old, new)
        => /\ last'.status = 200
              => /\ authenticate_user(users', invitees', e, new, now').outcome = "user"
                 /\ old # new
                    => authenticate_user(users', invitees', e, old, now').outcome = "none"
                 /\ ~find_one(users', e).mustChangePassword
                 /\ ~find_one(users', e).isFirstLogin
           /\ (HasDoc(users, e) /\ find_one(users, e).password # hash_password(old))
              => /\ last'.status = 400
                 /\ users' = users]_vars

\* C9 witness: a first-login user has changed the default password to another.
C9_Witness ==
    /\ last.op = "change_password"
    /\ last.status = 200
    /\ last.body.oldPassword = E01
    /\ last.body.newPassword # E01
    /\ last.body.employeeCode = E01

\* C10: after logout has answered for a token, get_current_user presented with
\* that token answers 401.
C10_LogoutInvalidatesToken ==
    (last.op = "get_current_user" /\ last.body.token \in loggedOut)
    => last.status = 401

(***************************************************************************)
(* POST /gallery/upload-cdn                                                *)
(***************************************************************************)
PMConnect3 == "PM Connect 3.0"
EventVersions == {PMConnect3, "PM Connect 2.0"}
ContentTypes == {"image/png", "application/pdf", "video/mp4"}

\* the only limit the handler knows: existing_count >= 2
MaxPhotos == 2

\* count_documents({"employeeId": e, "eventVersion": v})
RECURSIVE count_documents(_, _, _)
count_documents(coll, e, v) ==
    IF coll = <<>> THEN 0
    ELSE (IF Head(coll).employeeId = e /\ Head(coll).eventVersion = v THEN 1 ELSE 0)
         + count_documents(Tail(coll), e, v)

\* the photo document (photoId, URLs and CDN metadata do not bear on the count)
photo(e, v) == [employeeId |-> e, eventVersion |-> v]

\* the handler up to its first await: count_documents for "PM Connect 3.0",
\* the reading of the file for any other event version
upload_gallery_photo_cdn_count(r, e, v, ct) ==
    /\ Free(r)
    /\ Goto(r, "gp_counted",
            [emp |-> e, docs |-> <<>>, version |-> v, content_type |-> ct,
             existing_count |-> IF v = PMConnect3
                                THEN count_documents(gallery_photos, e, PMConnect3)
                                ELSE 0])
    /\ UNCHANGED gallery_photos

\* the limit is checked on the count read before; "Maximum 2 photos" and
\* "Only image files are allowed" are raised inside the try block and
\* re-wrapped by `except Exception`; an image is read (an await) and uploaded
upload_gallery_photo_cdn_upload(r) ==
    /\ pc[r] = "gp_counted"
    /\ IF arg[r].existing_count >= MaxPhotos
       THEN Reply(r, Response("upload_gallery_photo_cdn", 500,
                              "Maximum 2 photos allowed for PM Connect 3.0", 400,
                              [employeeId |-> arg[r].emp]))
       ELSE IF arg[r].content_type # "image/png"
       THEN Reply(r, Response("upload_gallery_photo_cdn", 500,
                              "Only image files are allowed", 500,
                              [employeeId |-> arg[r].emp]))
       ELSE Goto(r, "gp_insert", arg[r])
    /\ UNCHANGED gallery_photos

\* db.gallery_photos.insert_one(photo)
upload_gallery_photo_cdn_insert(r) ==
    /\ pc[r] = "gp_insert"
    /\ gallery_photos' = Append(gallery_photos, photo(arg[r].emp, arg[r].version))
    /\ Reply(r, Response("upload_gallery_photo_cdn", 200,
                         "Photo uploaded successfully to CDN", 0,
                         [employeeId |-> arg[r].emp]))

GalleryStep(r) ==
    \/ \E e \in RosterIds, v \in EventVersions, ct \in ContentTypes :
           upload_gallery_photo_cdn_count(r, e, v, ct)
    \/ upload_gallery_photo_cdn_upload(r)
    \/ upload_gallery_photo_cdn_insert(r)

\* any interleaving of at most MaxRequests uploads
NextGallery ==
    \E r \in Reqs :
        /\ GalleryStep(r)
        /\ Idle(r) => budget > 0
        /\ budget' = IF Idle(r) THEN budget - 1 ELSE budget
        /\ UNCHANGED <<db, auth, csv, agendas, cab_allocations, exports, caching, feedback, documents, message_logs, bulk_message_logs>>

SpecGallery == Init /\ [][NextGallery]_vars

\* C11: under any interleaving of upload_gallery_photo_cdn requests no
\* employee ever has more than 2 gallery photos with eventVersion
\* "PM Connect 3.0", and an upload refused for that limit stores no photo.
C11_AtMostTwoPhotos ==
    [][ /\ \A e \in RosterIds :
               count_documents(gallery_photos', e, PMConnect3) <= 2
        /\ (last'.op = "upload_gallery_photo_cdn" /\ last'.inner = 400)
               => gallery_photos' = gallery_photos ]_vars

(***************************************************************************)
(* POST /agenda, POST /agenda/cdn, GET /agenda                             *)
(***************************************************************************)
AgendaFiles == {[ext |-> "pdf", content_type |-> "application/pdf"],
                [ext |-> "pdf", content_type |-> "video/mp4"],
                [ext |-> "txt", content_type |-> "text/plain"]}

\* the agenda document; agendaId is a fresh uuid, here the number of the
\* request that built it (pdfBase64 and the CDN fields are left out)
Agenda(id, cdn) == [agendaId |-> id, cdn |-> cdn]

\* str(uuid.uuid4()): no two requests draw the same
uuid4 == budget

\* file.filename.endswith('.pdf'); then the file is read (an await)
upload_agenda_read(r, file) ==
    /\ Free(r)
    /\ IF file.ext # "pdf"
       THEN Reply(r, Response("upload_agenda", 500, "File must be PDF format", 400, <<>>))
       ELSE Goto(r, "ua_delete", [emp |-> <<>>, docs |-> <<Agenda(uuid4, FALSE)>>])
    /\ UNCHANGED agendas

\* db.agendas.delete_many({})
upload_agenda_delete(r) ==
    /\ pc[r] = "ua_delete"
    /\ agendas' = <<>>
    /\ Goto(r, "ua_insert", arg[r])

\* db.agendas.insert_one(agenda.dict())
upload_agenda_insert(r) ==
    /\ pc[r] = "ua_insert"
    /\ agendas' = Append(agendas, arg[r].docs[1])
    /\ Reply(r, Response("upload_agenda", 200, "Agenda uploaded successfully", 0,
                         [agendaId |-> arg[r].docs[1].agendaId]))

\* file.filename.endswith('.pdf'); cloudinary_service.upload_video refuses
\* any content type that is not video/* and reads the file (an await)
upload_agenda_cdn_upload(r, file) ==
    /\ Free(r)
    /\ IF file.ext # "pdf"
       THEN Reply(r, Response("upload_agenda_cdn", 500, "File must be PDF format", 400, <<>>))
       ELSE IF file.content_type # "video/mp4"
       THEN Reply(r, Response("upload_agenda_cdn", 500, "Only video files are allowed", 500, <<>>))
       ELSE Goto(r, "uac_delete", [emp |-> <<>>, docs |-> <<Agenda(uuid4, TRUE)>>])
    /\ UNCHANGED agendas

\* db.agendas.delete_many({})
upload_agenda_cdn_delete(r) ==
    /\ pc[r] = "uac_delete"
    /\ agendas' = <<>>
    /\ Goto(r, "uac_insert", arg[r])

\* db.agendas.insert_one(agenda)
upload_agenda_cdn_insert(r) ==
    /\ pc[r] = "uac_insert"
    /\ agendas' = Append(agendas, arg[r].docs[1])
    /\ Reply(r, Response("upload_agenda_cdn", 200, "Agenda uploaded successfully to CDN", 0,
                         [agendaId |-> arg[r].docs[1].agendaId]))

\* db.agendas.find_one(): the first document in stored order
get_current_agenda(r) ==
    /\ Free(r)
    /\ Reply(r, IF agendas = <<>>
                THEN Response("get_current_agenda", 200, "No agenda available", 0, <<>>)
                ELSE Response("get_current_agenda", 200, "", 0,
                              [agendaId |-> agendas[1].agendaId]))
    /\ UNCHANGED agendas

AgendaStep(r) ==
    \/ \E file \in AgendaFiles : upload_agenda_read(r, file)
    \/ upload_agenda_delete(r)
    \/ upload_agenda_insert(r)
    \/ \E file \in AgendaFiles : upload_agenda_cdn_upload(r, file)
    \/ upload_agenda_cdn_delete(r)
    \/ upload_agenda_cdn_insert(r)
    \/ get_current_agenda(r)

\* any interleaving of at most MaxRequests requests
NextAgenda ==
    \E r \in Reqs :
        /\ AgendaStep(r)
        /\ Idle(r) => budget > 0
        /\ budget' = IF Idle(r) THEN budget - 1 ELSE budget
        /\ UNCHANGED <<db, auth, csv, gallery_photos, cab_allocations, exports, caching, feedback, documents, message_logs, bulk_message_logs>>

SpecAgenda == Init /\ [][NextAgenda]_vars

\* C12: once the agenda uploads of any sequence or interleaving have all
\* completed and one of them has stored an agenda, the agendas collection
\* holds exactly one document, the one inserted last, and get_current_agenda
\* returns it.
C12_SingleCurrentAgenda ==
    (AllIdle /\ agendas # <<>>) =>
        /\ Len(agendas) = 1
        /\ (last.op \in {"upload_agenda", "upload_agenda_cdn"} /\ last.status = 200)
               => agendas[Len(agendas)].agendaId = last.body.agendaId
        /\ (last.op = "get_current_agenda")
               => last.body = [agendaId |-> agendas[Len(agendas)].agendaId]

(***************************************************************************)
(* GET /data/integrity-check and POST /data/fix-integrity                  *)
(***************************************************************************)
\* documents of invitees and of responses in a database state
MaxDocs == 2
\* cabs in a database state
MaxCabs == 2
\* members listed under one cab
MaxMembers == 2

\* the stored cab allocation (pickup location, time and member details are
\* left out); cabId is a uuid, here the position at which the upload built
\* the cab
CabAllocation(id, num, members) ==
    [cabId |-> id, cabNumber |-> num, assignedMembers |-> members]

SeqsUpTo(S, n) == UNION {[1..k -> S] : k \in 0..n}

ToSet(seq) == {seq[i] : i \in 1..Len(seq)}

\* the invitee documents the uploads and submit_response leave behind
InviteeDocs ==
    {[bulk_invitee(RosterRow(e)) EXCEPT !.hasResponded = b] :
        e \in RosterIds, b \in BOOLEAN}

\* the cab allocations an upload leaves behind: an employee can be listed
\* twice under one cab and under several cabs
CabStates ==
    UNION {{[i \in 1..k |-> CabAllocation(i, i, m[i])] :
               m \in [1..k -> SeqsUpTo(RosterIds, MaxMembers)]} : k \in 0..MaxCabs}

\* a slip: the employees seen in earlier cabs are forgotten
RECURSIVE unique_members_unseen(_, _)
unique_members_unseen(members, seen) ==
    IF members = <<>> THEN <<>>
    ELSE IF Head(members) \in ToSet(Tail(members))
         THEN unique_members_unseen(Tail(members), seen)
         ELSE <<Head(members)>> \o unique_members_unseen(Tail(members), seen)

\* for emp_id in original_members: if emp_id not in seen_employees: ...
RECURSIVE unique_members(_, _)
unique_members(members, seen) ==
    IF members = <<>> THEN <<>>
    ELSE IF Head(members) \in seen
         THEN unique_members(Tail(members), seen)
         ELSE <<Head(members)>>
              \o unique_members(Tail(members), seen \cup {Head(members)})

\* db.cab_allocations.update_one({"cabId": id}, {"$set": {"assignedMembers": m}})
update_one_cab(coll, id, m) ==
    IF \E i \in 1..Len(coll) : coll[i].cabId = id
    THEN LET first == CHOOSE i \in 1..Len(coll) :
                 coll[i].cabId = id /\ \A j \in 1..(i - 1) : coll[j].cabId # id
         IN [coll EXCEPT ![first].assignedMembers = m]
    ELSE coll

\* Fix 2: the loop over the cabs read by find().to_list(1000); result is the
\* collection after the updates and the cab numbers that were fixed
RECURSIVE fix_cabs(_, _, _, _)
fix_cabs(coll, todo, seen, fixed) ==
    IF todo = <<>> THEN [coll |-> coll, fixed_cabs |-> fixed]
    ELSE LET cab == Head(todo)
             original == cab.assignedMembers
             unique == unique_members(original, seen)
             changed == Len(unique) # Len(original)
         IN fix_cabs(IF changed THEN update_one_cab(coll, cab.cabId, unique) ELSE coll,
                     Tail(todo),
                     seen \cup ToSet(original),
                     IF changed THEN Append(fixed, cab.cabNumber) ELSE fixed)

\* Fix 1: update_many with $in and with $nin on the response employee ids
sync_response_flags(inv, resp) ==
    LET response_employee_ids == {resp[i].employeeId : i \in 1..Len(resp)}
    IN [i \in 1..Len(inv) |->
           [inv[i] EXCEPT !.hasResponded = (inv[i].employeeId \in response_employee_ids)]]

\* POST /data/fix-integrity, with no other request in between
fix_data_integrity_issues ==
    LET fixed == fix_cabs(cab_allocations, cab_allocations, {}, <<>>)
    IN /\ AllIdle
       /\ invitees' = sync_response_flags(invitees, responses)
       /\ cab_allocations' = fixed.coll
       /\ last' = Response("fix_data_integrity", 200, "Data integrity fixes applied", 0,
                           [success |-> TRUE, fixed_cabs |-> fixed.fixed_cabs])
       /\ UNCHANGED <<responses, users, indexes, slots, budget, auth, csv,
                      media, exports, caching, feedback, documents, message_logs, bulk_message_logs>>

\* the employee ids found again after they were seen (duplicate_assignments)
RECURSIVE duplicate_assignments(_, _)
duplicate_assignments(all_assigned, seen) ==
    IF all_assigned = <<>> THEN <<>>
    ELSE (IF Head(all_assigned) \in seen THEN <<Head(all_assigned)>> ELSE <<>>)
         \o duplicate_assignments(Tail(all_assigned), seen \cup {Head(all_assigned)})

\* all_assigned_employees.extend(cab["assignedMembers"]) for every cab
RECURSIVE all_assigned_employees(_)
all_assigned_employees(cabs) ==
    IF cabs = <<>> THEN <<>>
    ELSE Head(cabs).assignedMembers \o all_assigned_employees(Tail(cabs))

\* count_documents({"hasResponded": True})
RECURSIVE responded_invitees(_)
responded_invitees(inv) ==
    IF inv = <<>> THEN 0
    ELSE (IF Head(inv).hasResponded THEN 1 ELSE 0) + responded_invitees(Tail(inv))

\* the "checks" of the integrity report that concern invitees, responses
\* and cabs (the food preference totals are left out)
integrity_report(inv, resp, cabs) ==
    [consistency |-> IF Len(resp) = responded_invitees(inv) THEN "passed" ELSE "failed",
     cab_duplicates |-> IF duplicate_assignments(all_assigned_employees(cabs), {}) = <<>>
                        THEN "passed" ELSE "failed",
     orphaned |-> IF {resp[i].employeeId : i \in 1..Len(resp)}
                         \subseteq {inv[i].employeeId : i \in 1..Len(inv)}
                  THEN "passed" ELSE "warning"]

\* GET /data/integrity-check, with no other request in between
check_data_integrity ==
    /\ AllIdle
    /\ last' = Response("check_data_integrity", 200, "Data integrity check completed", 0,
                        integrity_report(invitees, responses, cab_allocations))
    /\ UNCHANGED <<db, slots, budget, auth, csv, ext>>

\* the database states the two requests are run from: any roster and
\* responses, or any cab allocations
InitIntegrity ==
    /\ \/ /\ invitees \in SeqsUpTo(InviteeDocs, MaxDocs)
          /\ responses \in SeqsUpTo({ResponseDoc(e) : e \in RosterIds}, MaxDocs)
          /\ cab_allocations = <<>>
       \/ /\ invitees = <<>>
          /\ responses = <<>>
          /\ cab_allocations \in CabStates
    /\ users = <<>>
    /\ indexes = [invitees |-> FALSE, responses |-> FALSE, users |-> FALSE]
    /\ pc = [r \in Reqs |-> "idle"]
    /\ arg = [r \in Reqs |-> NoArg]
    /\ last = NoResponse
    /\ budget = MaxRequests
    /\ now = 0
    /\ tokens = {}
    /\ loggedOut = {}
    /\ frame = DataFrame("csv", required_columns, <<>>)
    /\ validation = NotValidated
    /\ gallery_photos = <<>>
    /\ agendas = <<>>
    /\ export_tasks = <<>>
    /\ returned = {}
    /\ InitCaching
    /\ feedback = <<>>
    /\ documents = <<>>
    /\ message_logs = <<>>
    /\ bulk_message_logs = <<>>

NextIntegrity ==
    \/ fix_data_integrity_issues
    \/ check_data_integrity

SpecIntegrity == InitIntegrity /\ [][NextIntegrity]_vars

\* C13: when fix_data_integrity_issues has returned success and
\* check_data_integrity is the next request, it reports the
\* "Invitee-Response Consistency" check as passed.
C13_FixThenConsistent ==
    [][ (/\ last.op = "fix_data_integrity"
         /\ last.body.success
         /\ last'.op = "check_data_integrity")
        => last'.body.consistency = "passed" ]_vars

\* the position of the first cab, in stored order, that lists employee e
FirstCab(cabs, e) ==
    CHOOSE i \in 1..Len(cabs) :
        /\ e \in ToSet(cabs[i].assignedMembers)
        /\ \A j \in 1..(i - 1) : e \notin ToSet(cabs[j].assignedMembers)

Assigned(cabs) == UNION {ToSet(cabs[i].assignedMembers) : i \in 1..Len(cabs)}

\* how many times e is listed across all cabs
Listings(cabs, e) ==
    Cardinality({<<i, j>> \in (1..Len(cabs)) \X (1..MaxMembers + 1) :
                    j <= Len(cabs[i].assignedMembers) /\ cabs[i].assignedMembers[j] = e})

\* C14: fix_data_integrity_issues leaves every employee listed once across
\* all cabs, the set of assigned employees as it was, every employee in the
\* first cab that listed them, and a check_data_integrity that follows
\* reports "Cab Assignment Duplicates" as passed.
C14_FixRemovesCabDuplicates ==
    [][ /\ last'.op = "fix_data_integrity" =>
            /\ \A e \in RosterIds : Listings(cab_allocations', e) <= 1
            /\ Assigned(cab_allocations') = Assigned(cab_allocations)
            /\ Len(cab_allocations') = Len(cab_allocations)
            /\ \A e \in Assigned(cab_allocations) :
                   FirstCab(cab_allocations', e) = FirstCab(cab_allocations, e)
        /\ (last.op = "fix_data_integrity" /\ last'.op = "check_data_integrity")
               => last'.body.cab_duplicates = "passed" ]_vars

\* C14 witness: the fix has removed duplicates from the last of MaxCabs cabs
\* and left an employee in each cab
C14_Witness ==
    /\ last.op = "fix_data_integrity"
    /\ Len(cab_allocations) = MaxCabs
    /\ MaxCabs \in ToSet(last.body.fixed_cabs)
    /\ \A i \in 1..MaxCabs : cab_allocations[i].assignedMembers # <<>>

(***************************************************************************)
(* validate_cab_csv and POST /cab-allocations/upload-enhanced              *)
(***************************************************************************)
cab_required_columns == {"Cab Number", "Employee ID", "Pickup Location", "Time"}

\* a cell of the 'Cab Number' column: a number, a missing value or a text
\* that is not a number
Number(n) == [kind |-> "number", value |-> n]
MissingNumber == [kind |-> "nan", value |-> 0]
NotNumber == [kind |-> "text", value |-> 0]

\* int(float(cell)) succeeds: float() refuses the text, int() refuses NaN
IsInteger(cell) == cell.kind = "number"

DigitValue(d) ==
    CASE d = "0" -> 0 [] d = "1" -> 1 [] d = "2" -> 2 [] d = "3" -> 3
      [] d = "4" -> 4 [] d = "5" -> 5 [] d = "6" -> 6 [] d = "7" -> 7
      [] d = "8" -> 8 [] d = "9" -> 9 [] OTHER -> 0 - 1

\* one or two digits, as a number (-1 for anything else)
TwoDigits(s) ==
    IF Len(s) \in {1, 2} /\ \A i \in 1..Len(s) : DigitValue(s[i]) >= 0
    THEN IF Len(s) = 1 THEN DigitValue(s[1])
         ELSE 10 * DigitValue(s[1]) + DigitValue(s[2])
    ELSE 0 - 1

\* datetime.strptime(s, '%H:%M') succeeds (the formats with seconds and
\* with AM/PM are left out: no Time cell of the model has them)
IsStandardTime(s) ==
    \E k \in 1..Len(s) :
        /\ s[k] = ":"
        /\ TwoDigits(SubSeq(s, 1, k - 1)) \in 0..23
        /\ TwoDigits(SubSeq(s, k + 1, Len(s))) \in 0..59

\* "consider splitting" is warned above this many employees in a cab
CabCapacity == 8

\* a slip: an employee that is already assigned is an error
cab_row_errors_duplicate(row, index, employee_assignments) ==
    LET cab == row["Cab Number"]
        emp_id == Trimmed(row, "Employee ID")
    IN  (IF IsInteger(cab)
         THEN IF cab.value <= 0
              THEN <<ValidationError(index + 1, "Cab Number", cab.value,
                                     "Cab Number must be positive", "error")>>
              ELSE <<>>
         ELSE <<ValidationError(index + 1, "Cab Number", cab,
                                "Cab Number must be a valid integer", "error")>>)
        \o
        (IF emp_id = <<>>
         THEN <<ValidationError(index + 1, "Employee ID", emp_id,
                                "Employee ID cannot be empty", "error")>>
         ELSE IF emp_id \in employee_assignments
         THEN <<ValidationError(index + 1, "Employee ID", emp_id,
                                "Employee is already assigned", "error")>>
         ELSE <<>>)
        \o
        (IF Trimmed(row, "Pickup Location") = <<>>
         THEN <<ValidationError(index + 1, "Pickup Location", <<>>,
                                "Pickup Location cannot be empty", "error")>>
         ELSE <<>>)
        \o
        (IF Trimmed(row, "Time") = <<>>
         THEN <<ValidationError(index + 1, "Time", <<>>,
                                "Pickup Time cannot be empty", "error")>>
         ELSE <<>>)

\* row_errors of one row of validate_cab_csv
cab_row_errors(row, index, employee_assignments) ==
    LET cab == row["Cab Number"]
        emp_id == Trimmed(row, "Employee ID")
    IN  (IF IsInteger(cab)
         THEN IF cab.value <= 0
              THEN <<ValidationError(index + 1, "Cab Number", cab.value,
                                     "Cab Number must be positive", "error")>>
              ELSE <<>>
         ELSE <<ValidationError(index + 1, "Cab Number", cab,
                                "Cab Number must be a valid integer", "error")>>)
        \o
        (IF emp_id = <<>>
         THEN <<ValidationError(index + 1, "Employee ID", emp_id,
                                "Employee ID cannot be empty", "error")>>
         ELSE <<>>)
        \o
        (IF Trimmed(row, "Pickup Location") = <<>>
         THEN <<ValidationError(index + 1, "Pickup Location", <<>>,
                                "Pickup Location cannot be empty", "error")>>
         ELSE <<>>)
        \o
        (IF Trimmed(row, "Time") = <<>>
         THEN <<ValidationError(index + 1, "Time", <<>>,
                                "Pickup Time cannot be empty", "error")>>
         ELSE <<>>)

\* row_warnings of one row of validate_cab_csv
cab_row_warnings(row, index, employee_assignments) ==
    LET emp_id == Trimmed(row, "Employee ID")
        pickup_time == Trimmed(row, "Time")
    IN  (IF emp_id # <<>> /\ emp_id \in employee_assignments
         THEN <<ValidationError(index + 1, "Employee ID", emp_id,
                                "Employee is already assigned", "warning")>>
         ELSE <<>>)
        \o
        (IF pickup_time # <<>> /\ ~IsStandardTime(pickup_time)
         THEN <<ValidationError(index + 1, "Time", pickup_time,
                                "Time format may not be standard", "warning")>>
         ELSE <<>>)

\* if cab_num and emp_id: the row is tracked for duplicate checking
cab_tracked(row) ==
    /\ IsInteger(row["Cab Number"])
    /\ row["Cab Number"].value # 0
    /\ Trimmed(row, "Employee ID") # <<>>

cab_valid_record(row) ==
    [cabNumber |-> row["Cab Number"].value,
     employeeId |-> Trimmed(row, "Employee ID"),
     pickupLocation |-> Trimmed(row, "Pickup Location"),
     pickupTime |-> Trimmed(row, "Time"),
     employeeName |-> <<>>,
     contactNumber |-> <<>>]

\* the loop over df.iterrows(): errors, warnings and valid_data of the rows
\* from position index + 1 on, given the employees tracked so far
RECURSIVE validate_cab_rows(_, _, _)
validate_cab_rows(rows, index, employee_assignments) ==
    IF index >= Len(rows)
    THEN [errors |-> <<>>, warnings |-> <<>>, valid_data |-> <<>>]
    ELSE LET row == rows[index + 1]
             row_errs == cab_row_errors(row, index, employee_assignments)
             row_warns == cab_row_warnings(row, index, employee_assignments)
             rest == validate_cab_rows(rows, index + 1,
                         IF cab_tracked(row)
                         THEN employee_assignments \cup {Trimmed(row, "Employee ID")}
                         ELSE employee_assignments)
         IN [errors |-> row_errs \o rest.errors,
             warnings |-> row_warns \o rest.warnings,
             valid_data |-> (IF row_errs = <<>> THEN <<cab_valid_record(row)>> ELSE <<>>)
                            \o rest.valid_data]

\* the capacity warnings, one per cab with more than CabCapacity tracked rows
cab_capacity_warnings(rows) ==
    LET tracked(n) == {i \in 1..Len(rows) :
                          cab_tracked(rows[i]) /\ rows[i]["Cab Number"].value = n}
        crowded == {rows[i]["Cab Number"].value : i \in {j \in 1..Len(rows) :
                        cab_tracked(rows[j])
                        /\ Cardinality(tracked(rows[j]["Cab Number"].value)) > CabCapacity}}
        RECURSIVE list(_)
        list(S) == IF S = {} THEN <<>>
                   ELSE LET n == CHOOSE x \in S : TRUE
                        IN <<ValidationError(0, "Cab Number", n,
                                             "consider splitting", "warning")>>
                           \o list(S \ {n})
    IN list(crowded)

validate_cab_csv(df) ==
    LET missing_columns == cab_required_columns \ df.columns
        order == <<"Cab Number", "Employee ID", "Pickup Location", "Time">>
        missing_errors ==
            Concat([i \in 1..4 |->
                IF order[i] \in missing_columns
                THEN <<ValidationError(0, order[i], <<>>, "Required column is missing", "error")>>
                ELSE <<>>])
        looped == validate_cab_rows(df.rows, 0, {})
        warnings == looped.warnings \o cab_capacity_warnings(df.rows)
    IN  IF missing_columns # {}
        THEN ValidationResult(FALSE, Len(df.rows), 0, missing_errors, <<>>, None)
        ELSE ValidationResult(looped.errors = <<>>, Len(df.rows), Len(looped.valid_data),
                              looped.errors, warnings,
                              IF looped.errors = <<>> THEN Some(looped.valid_data) ELSE None)

\* cab_groups: one allocation per cab number, in the order in which the cab
\* numbers first occur, each with its rows' employees in file order
RECURSIVE cab_groups(_, _)
cab_groups(processed_data, groups) ==
    IF processed_data = <<>> THEN groups
    ELSE LET data == Head(processed_data)
             known == \E i \in 1..Len(groups) : groups[i].cabNumber = data.cabNumber
             at == CHOOSE i \in 1..Len(groups) : groups[i].cabNumber = data.cabNumber
         IN cab_groups(Tail(processed_data),
                IF known
                THEN [groups EXCEPT ![at].assignedMembers = Append(@, data.employeeId)]
                ELSE Append(groups, CabAllocation(Len(groups) + 1, data.cabNumber,
                                                  <<data.employeeId>>)))

\* the handler up to delete_many: extension, read, validation
upload_cab_allocations_enhanced_read(r, file) ==
    /\ Free(r)
    /\ LET validation_result == validate_cab_csv(file)
       IN IF ~IsSpreadsheet(file)
          THEN Reply(r, Response("upload_cab_allocations_enhanced", 500,
                                 "File must be CSV or Excel format", 400, [success |-> FALSE]))
          ELSE IF ~validation_result.is_valid
          THEN Reply(r, Response("upload_cab_allocations_enhanced", 200, "Validation failed", 0,
                                 [success |-> FALSE, validation_result |-> validation_result]))
          ELSE IF validation_result.processed_data.data = <<>>
          THEN Reply(r, Response("upload_cab_allocations_enhanced", 500,
                                 "No valid data to import", 400, [success |-> FALSE]))
          ELSE Goto(r, "cab_delete",
                    [emp |-> <<>>, docs |-> validation_result.processed_data.data,
                     file |-> file, validation_result |-> validation_result])
    /\ UNCHANGED cab_allocations

\* db.cab_allocations.delete_many({})
upload_cab_allocations_enhanced_delete(r) ==
    /\ pc[r] = "cab_delete"
    /\ cab_allocations' = <<>>
    /\ Goto(r, "cab_insert", arg[r])

\* db.cab_allocations.insert_many(allocations)
upload_cab_allocations_enhanced_insert(r) ==
    /\ pc[r] = "cab_insert"
    /\ LET allocations == cab_groups(arg[r].docs, <<>>)
       IN /\ cab_allocations' = cab_allocations \o allocations
          /\ Reply(r, Response("upload_cab_allocations_enhanced", 200,
                               "Successfully uploaded", 0,
                               [success |-> TRUE,
                                validation_result |-> arg[r].validation_result,
                                inserted_count |-> Len(allocations),
                                warnings |-> Len(arg[r].validation_result.warnings)]))

\* the cells of a cab file
CabE01 == <<" ", "E", "0", "1">>
StandardTime == <<"0", "8", ":", "3", "0">>
UnusualTime == <<"8", "a", "m">>

CabRow(cab, id, pickup, time) ==
    [c \in cab_required_columns |->
        CASE c = "Cab Number" -> cab
          [] c = "Employee ID" -> id
          [] c = "Pickup Location" -> pickup
          [] c = "Time" -> time]

\* rows with every cab number and employee cell, and rows with an empty
\* pickup location, an unusual time, an empty time and a text for a number
CabFullRows ==
    {CabRow(cab, id, <<"P">>, StandardTime) :
        cab \in {Number(1), Number(2), Number(0), MissingNumber},
        id \in {E01, E02, CabE01, NaN}}
    \cup {CabRow(Number(1), E01, NaN, StandardTime),
          CabRow(Number(1), E02, <<"P">>, UnusualTime),
          CabRow(Number(2), E01, <<"P">>, NaN),
          CabRow(NotNumber, E02, <<"P">>, StandardTime)}

CabRows(cols) == {[c \in cols |-> full[c]] : full \in CabFullRows}

CabHeaders ==
    {DataFrame("csv", cab_required_columns, <<>>),
     DataFrame("xlsx", cab_required_columns \ {"Time"}, <<>>),
     DataFrame("txt", cab_required_columns, <<>>)}

InitCab ==
    /\ invitees = <<>>
    /\ responses = <<>>
    /\ users = <<>>
    /\ indexes = [invitees |-> FALSE, responses |-> FALSE, users |-> FALSE]
    /\ pc = [r \in Reqs |-> "idle"]
    /\ arg = [r \in Reqs |-> NoArg]
    /\ last = NoResponse
    /\ budget = MaxRequests
    /\ now = 0
    /\ tokens = {}
    /\ loggedOut = {}
    /\ frame \in CabHeaders
    /\ validation = NotValidated
    /\ gallery_photos = <<>>
    /\ agendas = <<>>
    /\ cab_allocations \in {<<>>, <<CabAllocation(1, 9, <<E02>>)>>}
    /\ export_tasks = <<>>
    /\ returned = {}
    /\ InitCaching
    /\ feedback = <<>>
    /\ documents = <<>>
    /\ message_logs = <<>>
    /\ bulk_message_logs = <<>>

\* the file is put together row by row
CabAddRow(row) ==
    /\ AllIdle
    /\ Len(frame.rows) < MaxRows
    /\ frame' = [frame EXCEPT !.rows = Append(@, row)]
    /\ validation' = NotValidated
    /\ last' = NoResponse
    /\ UNCHANGED <<db, slots, budget, auth, ext>>

\* validate_cab_csv called on the file
CabValidate ==
    /\ AllIdle
    /\ ~validation.done
    /\ validation' = Validated(validate_cab_csv(frame))
    /\ last' = NoResponse
    /\ UNCHANGED <<db, slots, budget, auth, frame, ext>>

\* the file is uploaded, one request at a time
CabUpload(r) ==
    /\ \/ upload_cab_allocations_enhanced_read(r, frame)
       \/ upload_cab_allocations_enhanced_delete(r)
       \/ upload_cab_allocations_enhanced_insert(r)
    /\ \A q \in Reqs \ {r} : Idle(q)
    /\ UNCHANGED <<db, budget, auth, csv, media, exports, caching, feedback, documents, message_logs, bulk_message_logs>>

NextCab ==
    \/ \E row \in CabRows(frame.columns) : CabAddRow(row)
    \/ CabValidate
    \/ \E r \in Reqs : CabUpload(r)

SpecCab == InitCab /\ [][NextCab]_vars

\* the row has a positive cab number, an employee, a pickup location and a time
CabRowRegular(row) ==
    /\ row["Cab Number"].kind = "number"
    /\ row["Cab Number"].value > 0
    /\ TrimmedText(row["Employee ID"]) # <<>>
    /\ TrimmedText(row["Pickup Location"]) # <<>>
    /\ TrimmedText(row["Time"]) # <<>>

\* a CSV or Excel file with the four columns and at least one row, all regular
CabFileRegular(file) ==
    /\ file.ext \in {"csv", "xlsx"}
    /\ cab_required_columns \subseteq file.columns
    /\ file.rows # <<>>
    /\ \A i \in 1..Len(file.rows) : CabRowRegular(file.rows[i])

\* the result has a finding of the given severity for the Employee ID of row i
EmployeeFinding(list, i) ==
    \E k \in 1..Len(list) : list[k].row = i /\ list[k].column = "Employee ID"

\* the 'Cab Number' cell is an integer other than 0
CabNumberUsable(row) ==
    row["Cab Number"].kind = "number" /\ row["Cab Number"].value # 0

\* the employees of the rows of cab n, in file order
RECURSIVE MembersOf(_, _)
MembersOf(rows, n) ==
    IF rows = <<>> THEN <<>>
    ELSE (IF Head(rows)["Cab Number"].value = n
          THEN <<TrimmedText(Head(rows)["Employee ID"])>> ELSE <<>>)
         \o MembersOf(Tail(rows), n)

\* what C15 says of a regular file and of its import
C15_Import ==
    /\ (validation'.done /\ CabFileRegular(frame')) => validation'.result.is_valid
    /\ (last'.op = "upload_cab_allocations_enhanced" /\ CabFileRegular(frame)) =>
           LET numbers == {frame.rows[i]["Cab Number"].value : i \in 1..Len(frame.rows)}
           IN /\ last'.body.success
              /\ Len(cab_allocations') = Cardinality(numbers)
              /\ \A n \in numbers :
                     \E k \in 1..Len(cab_allocations') :
                         /\ cab_allocations'[k].cabNumber = n
                         /\ cab_allocations'[k].assignedMembers = MembersOf(frame.rows, n)

\* C15 as stated: validate_cab_csv reports an Employee ID that occurred in
\* an earlier row as a warning and never as an error; a file whose only
\* irregularity is an employee under several cabs is valid and is imported
\* with success = true, the allocations being replaced by one per distinct
\* cab number with that cab's rows in file order.
C15_AsStated ==
    [][ /\ (validation'.done /\ cab_required_columns \subseteq frame'.columns) =>
            \A i \in 1..Len(frame'.rows) :
                LET emp == TrimmedText(frame'.rows[i]["Employee ID"])
                IN (emp # <<>>) =>
                      /\ ~EmployeeFinding(validation'.result.errors, i)
                      /\ (\E j \in 1..(i - 1) :
                              TrimmedText(frame'.rows[j]["Employee ID"]) = emp)
                         => EmployeeFinding(validation'.result.warnings, i)
        /\ C15_Import ]_vars

\* C15, amended: the warning is given when the Employee ID occurred in an
\* earlier row whose cab number is an integer other than 0; the rest as
\* stated.
C15_DuplicateEmployeeIsWarning ==
    [][ /\ (validation'.done /\ cab_required_columns \subseteq frame'.columns) =>
            \A i \in 1..Len(frame'.rows) :
                LET emp == TrimmedText(frame'.rows[i]["Employee ID"])
                IN (emp # <<>>) =>
                      /\ ~EmployeeFinding(validation'.result.errors, i)
                      /\ (\E j \in 1..(i - 1) :
                              /\ TrimmedText(frame'.rows[j]["Employee ID"]) = emp
                              /\ CabNumberUsable(frame'.rows[j]))
                         <=> EmployeeFinding(validation'.result.warnings, i)
        /\ C15_Import ]_vars

\* C15 witness: a file that lists an employee under two cabs has been
\* imported with a warning over earlier allocations
C15_Witness ==
    /\ last.op = "upload_cab_allocations_enhanced"
    /\ last.body.success
    /\ last.body.warnings >= 1
    /\ Len(cab_allocations) = 2
    /\ cab_allocations[1].assignedMembers = cab_allocations[2].assignedMembers

(***************************************************************************)
(* The Excel exports and GET /exports/progress/{export_id}                 *)
(***************************************************************************)
\* self.export_tasks[export_id] = {...}: the dictionary as a sequence of
\* entries, at most one per export id
set_task(tasks, id, task) ==
    IF \E i \in 1..Len(tasks) : tasks[i].export_id = id
    THEN [i \in 1..Len(tasks) |->
             IF tasks[i].export_id = id THEN [export_id |-> id, task |-> task]
             ELSE tasks[i]]
    ELSE Append(tasks, [export_id |-> id, task |-> task])

not_found == [status |-> "not_found"]

\* self.export_tasks.get(export_id, {"status": "not_found"})
export_progress(tasks, id) ==
    IF \E i \in 1..Len(tasks) : tasks[i].export_id = id
    THEN tasks[CHOOSE i \in 1..Len(tasks) : tasks[i].export_id = id].task
    ELSE not_found

\* export_responses_advanced up to the await that fetches the responses
export_responses_advanced_start(r) ==
    /\ Free(r)
    /\ export_tasks' = set_task(export_tasks, uuid4, [status |-> "starting", progress |-> 0])
    /\ Goto(r, "era_fetched", [emp |-> <<>>, docs |-> <<>>, export_id |-> uuid4])
    /\ UNCHANGED returned

\* with no responses the task ends in error and the function returns
\* {"error", "export_id"}, which the route cannot read ('filename' is
\* missing: 500); otherwise the workbook is built and the task completed
export_responses_advanced_finish(r) ==
    /\ pc[r] = "era_fetched"
    /\ returned' = returned \cup {arg[r].export_id}
    /\ IF responses = <<>>
       THEN /\ export_tasks' = set_task(export_tasks, arg[r].export_id,
                                        [status |-> "error", progress |-> 1])
            /\ Reply(r, Response("export_responses_advanced", 500, "Export failed", 0,
                                 [export_id |-> arg[r].export_id]))
       ELSE /\ export_tasks' = set_task(export_tasks, arg[r].export_id,
                                        [status |-> "completed", progress |-> 6])
            /\ Reply(r, Response("export_responses_advanced", 200, "", 0,
                                 [export_id |-> arg[r].export_id]))

\* export_invitees_with_status up to the await that fetches the invitees
export_invitees_with_status_start(r) ==
    /\ Free(r)
    /\ export_tasks' = set_task(export_tasks, uuid4, [status |-> "starting", progress |-> 0])
    /\ Goto(r, "eis_fetched", [emp |-> <<>>, docs |-> <<>>, export_id |-> uuid4])
    /\ UNCHANGED returned

export_invitees_with_status_finish(r) ==
    /\ pc[r] = "eis_fetched"
    /\ returned' = returned \cup {arg[r].export_id}
    /\ export_tasks' = set_task(export_tasks, arg[r].export_id,
                                [status |-> "completed", progress |-> 4])
    /\ Reply(r, Response("export_invitees_with_status", 200, "", 0,
                         [export_id |-> arg[r].export_id]))

\* export_cab_allocations draws an export id and fetches the allocations
export_cab_allocations_start(r) ==
    /\ Free(r)
    /\ Goto(r, "eca_fetched", [emp |-> <<>>, docs |-> <<>>, export_id |-> uuid4])
    /\ UNCHANGED exports

\* ... and returns the id with the file
export_cab_allocations_finish(r) ==
    /\ pc[r] = "eca_fetched"
    /\ returned' = returned \cup {arg[r].export_id}
    /\ Reply(r, Response("export_cab_allocations", 200, "", 0,
                         [export_id |-> arg[r].export_id]))
    /\ UNCHANGED export_tasks

\* GET /exports/progress/{export_id}
get_export_progress(r, export_id) ==
    /\ Free(r)
    /\ LET progress == export_progress(export_tasks, export_id)
       IN Reply(r, IF progress.status = "not_found"
                   THEN Response("get_export_progress", 404, "Export task not found", 0,
                                 [export_id |-> export_id, progress |-> progress])
                   ELSE Response("get_export_progress", 200, "", 0,
                                 [export_id |-> export_id, progress |-> progress]))
    /\ UNCHANGED exports

\* an export id that no export has drawn
UnknownExport == 0

ExportStep(r) ==
    \/ export_responses_advanced_start(r)
    \/ export_responses_advanced_finish(r)
    \/ export_invitees_with_status_start(r)
    \/ export_invitees_with_status_finish(r)
    \/ export_cab_allocations_start(r)
    \/ export_cab_allocations_finish(r)
    \/ \E id \in returned \cup {UnknownExport} : get_export_progress(r, id)

\* any interleaving of at most MaxRequests requests, over a database with
\* or without responses
InitExport ==
    /\ InitExt
    /\ invitees = bulk_invitees(DataFrame("csv", required_columns, <<RosterRow(E01)>>))
    /\ responses \in {<<>>, <<ResponseDoc(E01)>>}
    /\ users = <<>>
    /\ indexes = [invitees |-> FALSE, responses |-> FALSE, users |-> FALSE]
    /\ pc = [r \in Reqs |-> "idle"]
    /\ arg = [r \in Reqs |-> NoArg]
    /\ last = NoResponse
    /\ budget = MaxRequests
    /\ now = 0
    /\ tokens = {}
    /\ loggedOut = {}
    /\ frame = DataFrame("csv", required_columns, <<>>)
    /\ validation = NotValidated

NextExport ==
    \E r \in Reqs :
        /\ ExportStep(r)
        /\ Idle(r) => budget > 0
        /\ budget' = IF Idle(r) THEN budget - 1 ELSE budget
        /\ UNCHANGED <<db, auth, csv, media, cab_allocations, caching, feedback, documents, message_logs, bulk_message_logs>>

SpecExport == InitExport /\ [][NextExport]_vars

\* C16: for every export id that an export function has returned,
\* GET /exports/progress/{export_id} answers 200 with a task record whose
\* status is not "not_found".
C16_ExportsAreTracked ==
    [][ (last'.op = "get_export_progress" /\ last'.body.export_id \in returned)
        => (last'.status = 200 /\ last'.body.progress.status # "not_found") ]_vars

(***************************************************************************)
(* The performance cache                                                   *)
(***************************************************************************)
\* last minute of the clock of the cache
MaxMinutes == 3
\* lookups made in a run
MaxLookups == 3

CacheValues == {"stats", "page"}
TtlMinutes == {0, 1, 2}
\* clear_cache(pattern): None (here the empty text) or a text
Patterns == {<<>>, <<"d", "a">>, <<"s", "h">>, <<"x">>}

\* Python's None, as returned by get_cached_data
NoData == "None"

\* pattern in key: the pattern occurs in the key
Contains(key, pattern) ==
    \E i \in 0..(Len(key) - Len(pattern)) :
        SubSeq(key, i + 1, i + Len(pattern)) = pattern

\* d[key] = value
put(d, key, value) == [k \in DOMAIN d \cup {key} |-> IF k = key THEN value ELSE d[k]]

\* del d[key] for every key of the set
drop(d, keys) == [k \in DOMAIN d \ keys |-> d[k]]

\* a slip: the entry is still valid at the instant it expires
is_cache_valid_inclusive(ttl, key, t) ==
    key \in DOMAIN ttl /\ t <= ttl[key]

\* _is_cache_valid: datetime.utcnow() < self.cache_ttl[key]
is_cache_valid(ttl, key, t) ==
    key \in DOMAIN ttl /\ t < ttl[key]

get_cached_data(key) ==
    /\ lookups < MaxLookups
    /\ lookups' = lookups + 1
    /\ IF key \in DOMAIN cache /\ is_cache_valid(cache_ttl, key, now)
       THEN /\ performance_metrics' = [performance_metrics EXCEPT !.cache_hits = @ + 1]
            /\ last' = Response("get_cached_data", 0, "", 0, [key |-> key, data |-> cache[key]])
       ELSE /\ performance_metrics' = [performance_metrics EXCEPT !.cache_misses = @ + 1]
            /\ last' = Response("get_cached_data", 0, "", 0, [key |-> key, data |-> NoData])
    /\ UNCHANGED <<cache, cache_ttl, stored>>

set_cached_data(key, data, ttl_minutes) ==
    /\ cache' = put(cache, key, data)
    /\ cache_ttl' = put(cache_ttl, key, now + ttl_minutes)
    /\ stored' = [stored EXCEPT ![key] =
                     [set |-> TRUE, data |-> data, at |-> now, ttl |-> ttl_minutes]]
    /\ last' = NoResponse
    /\ UNCHANGED <<performance_metrics, lookups>>

clear_cache(pattern) ==
    LET keys_to_remove == IF pattern # <<>>
                          THEN {key \in DOMAIN cache : Contains(key, pattern)}
                          ELSE DOMAIN cache
    IN /\ cache' = drop(cache, keys_to_remove)
       /\ cache_ttl' = drop(cache_ttl, keys_to_remove)
       /\ stored' = [k \in CacheKeys |->
                        IF k \in keys_to_remove THEN [set |-> FALSE] ELSE stored[k]]
       /\ last' = NoResponse
       /\ UNCHANGED <<performance_metrics, lookups>>

\* a minute passes
CacheTick ==
    /\ now < MaxMinutes
    /\ now' = now + 1
    /\ last' = NoResponse
    /\ UNCHANGED caching

NextCache ==
    /\ \/ \E key \in CacheKeys : get_cached_data(key) /\ UNCHANGED now
       \/ \E key \in CacheKeys, data \in CacheValues, ttl \in TtlMinutes :
              set_cached_data(key, data, ttl) /\ UNCHANGED now
       \/ \E pattern \in Patterns : clear_cache(pattern) /\ UNCHANGED now
       \/ CacheTick
    /\ UNCHANGED <<db, slots, budget, tokens, loggedOut, csv, media,
                   cab_allocations, exports, feedback, documents, message_logs, bulk_message_logs>>

SpecCache == Init /\ [][NextCache]_vars

\* C17: get_cached_data(k) returns the value last stored for k exactly while
\* the time is before the store time plus ttl minutes and k has not been
\* cleared, and None otherwise; every lookup increments exactly one of
\* cache_hits and cache_misses, so their sum is the number of lookups made.
C17_CacheHonoursTtl ==
    [][ /\ last'.op = "get_cached_data" =>
            LET k == last'.body.key
                live == stored[k].set /\ now < stored[k].at + stored[k].ttl
            IN /\ last'.body.data = IF live THEN stored[k].data ELSE NoData
               /\ \/ /\ performance_metrics'.cache_hits = performance_metrics.cache_hits + 1
                     /\ performance_metrics'.cache_misses = performance_metrics.cache_misses
                  \/ /\ performance_metrics'.cache_hits = performance_metrics.cache_hits
                     /\ performance_metrics'.cache_misses = performance_metrics.cache_misses + 1
        /\ performance_metrics'.cache_hits + performance_metrics'.cache_misses = lookups' ]_vars

\* C17 witness: after a hit, a lookup at the very minute the entry expires
\* has missed
C17_Witness ==
    /\ last.op = "get_cached_data"
    /\ last.body.data = NoData
    /\ stored[last.body.key].set
    /\ now = stored[last.body.key].at + stored[last.body.key].ttl
    /\ stored[last.body.key].ttl > 0
    /\ performance_metrics.cache_hits >= 1

(***************************************************************************)
(* POST /auth/set-office-type and PUT /profile/{employee_id}               *)
(***************************************************************************)
\* what clients send as officeType ("Branch Office" is the value of
\* test_update_user_profile)
OfficeTypes == {"Head Office", "Site Office", "Branch Office"}

\* a field of UserProfileUpdate that was not sent
Unset == "None"

\* update_one({"employeeId": e}, {"$set": {field: value}}): the collection
\* afterwards; the first matching document is changed
set_field(coll, e, field, value) ==
    IF HasDoc(coll, e)
    THEN [coll EXCEPT ![FirstIndex(coll, e)] = put(@, field, value)]
    ELSE coll

\* result.modified_count of that update: a document matched and the value
\* it held was another one
modified_count(coll, e, field, value) ==
    IF HasDoc(coll, e)
       /\ (field \notin DOMAIN find_one(coll, e) \/ find_one(coll, e)[field] # value)
    THEN 1 ELSE 0

\* AuthService.set_office_type and the route around it (the activity log
\* written on success is left out)
set_office_type(employee_code, office_type) ==
    /\ AllIdle
    /\ IF office_type \notin {"Head Office", "Site Office"}
       THEN /\ users' = users
            /\ last' = Response("set_office_type", 400, "Invalid office type", 0,
                                [employeeCode |-> employee_code, officeType |-> office_type])
       ELSE /\ users' = set_field(users, employee_code, "officeType", office_type)
            /\ last' = IF modified_count(users, employee_code, "officeType", office_type) > 0
                       THEN Response("set_office_type", 200, "Office type set successfully", 0,
                                     [employeeCode |-> employee_code, officeType |-> office_type])
                       ELSE Response("set_office_type", 404, "User not found", 0,
                                     [employeeCode |-> employee_code, officeType |-> office_type])
    /\ UNCHANGED <<invitees, responses, indexes, slots, budget, auth, csv, ext>>

\* $set of every field of update_data, one after the other
RECURSIVE set_fields(_, _, _)
set_fields(coll, e, update_data) ==
    IF DOMAIN update_data = {} THEN coll
    ELSE LET field == CHOOSE f \in DOMAIN update_data : TRUE
         IN set_fields(set_field(coll, e, field, update_data[field]), e,
                       [f \in DOMAIN update_data \ {field} |-> update_data[f]])

\* PUT /profile/{employee_id}; profile_update gives every field of
\* UserProfileUpdate a value or Unset
update_user_profile(employee_id, profile_update) ==
    LET sent == {f \in DOMAIN profile_update : profile_update[f] # Unset}
        update_data == [f \in sent |-> profile_update[f]]
    IN /\ AllIdle
       /\ IF sent = {}
          THEN /\ UNCHANGED <<users, invitees>>
               /\ last' = Response("update_user_profile", 400, "No update data provided", 0,
                                   [employee_id |-> employee_id])
          ELSE /\ users' = set_fields(users, employee_id, update_data)
               /\ invitees' = set_fields(invitees, employee_id, update_data)
               /\ last' = IF ~HasDoc(users, employee_id) /\ ~HasDoc(invitees, employee_id)
                          THEN Response("update_user_profile", 404, "User not found", 0,
                                        [employee_id |-> employee_id])
                          ELSE Response("update_user_profile", 200, "Profile updated successfully", 0,
                                        [employee_id |-> employee_id, updated_fields |-> sent])
       /\ UNCHANGED <<responses, indexes, slots, budget, auth, csv, ext>>

\* the profile updates clients send: officeType and department, each sent or not
ProfileUpdates ==
    {[officeType |-> o, department |-> d] :
        o \in OfficeTypes \cup {Unset}, d \in {Unset, "Engineering"}}

\* a roster of two, the administrator, and the user records of the
\* administrator and of one invitee who has logged in
InitOffice ==
    /\ InitExt
    /\ invitees = Append(bulk_invitees(DataFrame("csv", required_columns,
                                                 <<RosterRow(E01), RosterRow(E02)>>)),
                         admin_invitee)
    /\ users = <<user_from_invitee(bulk_invitee(RosterRow(E01))), admin_data>>
    /\ responses = <<>>
    /\ indexes = [invitees |-> FALSE, responses |-> FALSE, users |-> FALSE]
    /\ pc = [r \in Reqs |-> "idle"]
    /\ arg = [r \in Reqs |-> NoArg]
    /\ last = NoResponse
    /\ budget = MaxRequests
    /\ now = 0
    /\ tokens = {}
    /\ loggedOut = {}
    /\ frame = DataFrame("csv", required_columns, <<>>)
    /\ validation = NotValidated

\* a user, the administrator, an invitee without a user record, a stranger
OfficeEmployees == {E01, ADMIN001, E02, <<"X", "9", "9">>}

NextOffice ==
    \/ \E e \in OfficeEmployees, t \in OfficeTypes : set_office_type(e, t)
    \/ \E e \in OfficeEmployees \ {ADMIN001}, u \in ProfileUpdates :
           update_user_profile(e, u)

SpecOffice == InitOffice /\ [][NextOffice]_vars

\* the officeType stored for the user with employeeId e
OfficeTypeOf(usr, e) == usr[FirstIndex(usr, e)].officeType

\* C18: every user's officeType is always null, "Head Office" or
\* "Site Office", and a request that is rejected leaves the stored
\* officeType as it was.
C18_OfficeTypeIsKnown ==
    [][ /\ \A i \in 1..Len(users') :
               users'[i].officeType \in {Unset, "Head Office", "Site Office"}
        /\ (last'.op \in {"set_office_type", "update_user_profile"} /\ last'.status # 200)
               => \A i \in 1..Len(users) : users'[i].officeType = users[i].officeType ]_vars

\* C19: set_office_type(e, t) for an existing user e and t "Head Office" or
\* "Site Office" answers "Office type set successfully" and leaves
\* officeType = t, also when the same call is repeated; 404 "User not
\* found" is answered only when no user with employeeId e exists.
C19_SetOfficeTypeIdempotent ==
    [][ (last'.op = "set_office_type"
         /\ last'.body.officeType \in {"Head Office", "Site Office"}) =>
            /\ HasDoc(users, last'.body.employeeCode) =>
                   /\ last'.status = 200
                   /\ OfficeTypeOf(users', last'.body.employeeCode) = last'.body.officeType
            /\ last'.status = 404 => ~HasDoc(users, last'.body.employeeCode) ]_vars

\* ------------------------------------------------------------------
\* Public testimonials (FeedbackService.get_public_testimonials)
\* ------------------------------------------------------------------

\* bounds: documents in db.feedback, and the largest limit asked for
MaxFeedback == 2
MaxLimit == 2

AnonymousParticipant ==
    <<"A", "n", "o", "n", "y", "m", "o", "u", "s", " ",
      "P", "a", "r", "t", "i", "c", "i", "p", "a", "n", "t">>
Anonymous == <<"A", "n", "o", "n", "y", "m", "o", "u", "s">>

\* the document submit_feedback inserts; status is "submitted" at first and
\* update_feedback_status / respond_to_feedback set it later
Feedback(id, employee_id, rating, anonymous, isPublic, status, timestamp) ==
    [feedbackId |-> id,
     employeeId |-> employee_id,
     rating |-> rating,
     category |-> "event",
     message |-> <<"o", "k">>,
     anonymous |-> anonymous,
     submissionTimestamp |-> timestamp,
     status |-> status,
     isPublic |-> isPublic,
     sentiment |-> "neutral"]

\* a slip: the isPublic condition of the query is left out
public_query_any(d) ==
    /\ d.rating >= 4
    /\ d.status \in {"reviewed", "responded"}

\* the query of find(): isPublic, rating $gte 4, status $in reviewed/responded
public_query(d) ==
    /\ d.isPublic = TRUE
    /\ d.rating >= 4
    /\ d.status \in {"reviewed", "responded"}

\* the documents of coll that satisfy the query, in stored order
RECURSIVE find_public(_)
find_public(coll) ==
    IF coll = <<>> THEN <<>>
    ELSE IF public_query(Head(coll))
         THEN <<Head(coll)>> \o find_public(Tail(coll))
         ELSE find_public(Tail(coll))

\* sort("submissionTimestamp", -1): every order of docs with the newest
\* first; MongoDB leaves the order of documents with equal keys open
sort_descending(docs) ==
    {[i \in 1..Len(docs) |-> docs[p[i]]] :
        p \in {q \in [1..Len(docs) -> 1..Len(docs)] :
                  /\ \A i, j \in 1..Len(docs) : i # j => q[i] # q[j]
                  /\ \A i, j \in 1..Len(docs) :
                         i < j => docs[q[i]].submissionTimestamp
                                      >= docs[q[j]].submissionTimestamp}}

\* limit(n): the first n documents; limit(0) sets no limit
cursor_limit(docs, n) ==
    IF n = 0 \/ Len(docs) <= n THEN docs ELSE SubSeq(docs, 1, n)

\* to_list(length): at most length documents of the cursor (length >= 0)
to_list(docs, length) ==
    IF Len(docs) <= length THEN docs ELSE SubSeq(docs, 1, length)

\* the author shown for one testimonial
testimonial_author(inv, testimonial) ==
    IF testimonial.anonymous = TRUE
    THEN AnonymousParticipant
    ELSE IF HasDoc(inv, testimonial.employeeId)
         THEN find_one(inv, testimonial.employeeId).employeeName
         ELSE Anonymous

\* the entry appended to public_testimonials for one document
public_testimonial(inv, testimonial) ==
    [rating |-> testimonial.rating,
     message |-> testimonial.message,
     category |-> testimonial.category,
     author |-> testimonial_author(inv, testimonial),
     date |-> testimonial.submissionTimestamp,
     sentiment |-> testimonial.sentiment]

\* GET /feedback/public/testimonials?limit=...: to_list raises ValueError
\* for a negative length, which both except clauses turn into a 500
get_public_testimonials(limit) ==
    /\ AllIdle
    /\ IF limit < 0
       THEN last' = Response("get_public_testimonials", 500,
                             "Public testimonials retrieval failed", 500,
                             [limit |-> limit, testimonials |-> <<>>])
       ELSE \E sorted \in sort_descending(find_public(feedback)) :
                LET testimonials == to_list(cursor_limit(sorted, limit), limit)
                IN last' = Response("get_public_testimonials", 200, "", 0,
                                    [limit |-> limit,
                                     testimonials |->
                                         [i \in 1..Len(testimonials) |->
                                             public_testimonial(invitees,
                                                                testimonials[i])]])
    /\ UNCHANGED <<db, slots, budget, auth, csv, ext>>

\* what a document of db.feedback can hold besides its id and timestamp:
\* feedback rated 4 in every state of publication, feedback rated 3 that is
\* public and reviewed, and feedback of E02, who is not an invitee
FeedbackKinds ==
    {[employeeId |-> E01, rating |-> 4, anonymous |-> a, isPublic |-> p, status |-> s] :
        a \in BOOLEAN, p \in BOOLEAN,
        s \in {"submitted", "reviewed", "responded"}}
    \cup {[employeeId |-> E01, rating |-> 3, anonymous |-> a, isPublic |-> TRUE,
           status |-> "reviewed"] : a \in BOOLEAN}
    \cup {[employeeId |-> E02, rating |-> 5, anonymous |-> a, isPublic |-> TRUE,
           status |-> "responded"] : a \in BOOLEAN}

\* the timestamp of the i-th document: the clock is read at each
\* submission and may or may not have advanced since the one before
RECURSIVE stamp(_, _)
stamp(ticks, i) == IF i = 0 THEN 0 ELSE stamp(ticks, i - 1) + ticks[i]

InitFeedback ==
    /\ \E kinds \in SeqsUpTo(FeedbackKinds, MaxFeedback) :
       \E ticks \in [1..Len(kinds) -> 0..1] :
           feedback = [i \in 1..Len(kinds) |->
                          Feedback(i, kinds[i].employeeId, kinds[i].rating,
                                   kinds[i].anonymous, kinds[i].isPublic,
                                   kinds[i].status, stamp(ticks, i))]
    /\ invitees = <<bulk_invitee(RosterRow(E01))>>
    /\ responses = <<>>
    /\ users = <<>>
    /\ indexes = [invitees |-> FALSE, responses |-> FALSE, users |-> FALSE]
    /\ pc = [r \in Reqs |-> "idle"]
    /\ arg = [r \in Reqs |-> NoArg]
    /\ last = NoResponse
    /\ budget = MaxRequests
    /\ now = 0
    /\ tokens = {}
    /\ loggedOut = {}
    /\ frame = DataFrame("csv", required_columns, <<>>)
    /\ validation = NotValidated
    /\ gallery_photos = <<>>
    /\ agendas = <<>>
    /\ cab_allocations = <<>>
    /\ export_tasks = <<>>
    /\ returned = {}
    /\ InitCaching
    /\ documents = <<>>
    /\ message_logs = <<>>
    /\ bulk_message_logs = <<>>

NextFeedback == \E limit \in (-1)..MaxLimit : get_public_testimonials(limit)

SpecFeedback == InitFeedback /\ [][NextFeedback]_vars

\* the stored documents an entry of the answer can have been made from
SourcesOf(entry) ==
    {j \in 1..Len(feedback) :
        /\ feedback[j].rating = entry.rating
        /\ feedback[j].message = entry.message
        /\ feedback[j].submissionTimestamp = entry.date}

\* C20: get_public_testimonials returns only feedback that is public, rated
\* at least 4 and reviewed or responded, at most limit entries, newest
\* first; the author shown for feedback marked anonymous is "Anonymous
\* Participant" and no entry has an employeeId.
C20_TestimonialsArePublic ==
    (last.op = "get_public_testimonials" /\ last.status = 200) =>
        LET t == last.body.testimonials
            named == {i \in 1..Len(t) : t[i].author # AnonymousParticipant}
        IN /\ Len(t) <= last.body.limit
           /\ \A i \in 1..Len(t) :
                  /\ "employeeId" \notin DOMAIN t[i]
                  /\ \E j \in SourcesOf(t[i]) :
                         /\ feedback[j].isPublic = TRUE
                         /\ feedback[j].rating >= 4
                         /\ feedback[j].status \in {"reviewed", "responded"}
                         /\ feedback[j].anonymous = TRUE
                                => t[i].author = AnonymousParticipant
           /\ \A i, k \in 1..Len(t) : i < k => t[i].date >= t[k].date
           /\ Cardinality(named)
                  <= Cardinality({j \in 1..Len(feedback) :
                                     /\ feedback[j].isPublic = TRUE
                                     /\ feedback[j].rating >= 4
                                     /\ feedback[j].status \in {"reviewed", "responded"}
                                     /\ feedback[j].anonymous = FALSE})

\* an answer cut to limit = 1 that shows anonymous feedback, the newest,
\* while named public feedback and private feedback are stored too
C20_Witness ==
    /\ last.op = "get_public_testimonials"
    /\ last.status = 200
    /\ last.body.limit = 1
    /\ Len(last.body.testimonials) = 1
    /\ last.body.testimonials[1].author = AnonymousParticipant
    /\ Len(feedback) = 2
    /\ feedback[2].anonymous = TRUE
    /\ feedback[2].submissionTimestamp > feedback[1].submissionTimestamp
    /\ public_query(feedback[1])
    /\ feedback[1].anonymous = FALSE

\* ------------------------------------------------------------------
\* The hasResponded flag against the stored responses
\* ------------------------------------------------------------------

\* C21: when no request is in flight, an invitee has hasResponded = true
\* exactly when a response document with its employeeId is stored.
C21_FlagMatchesResponses ==
    AllIdle =>
        \A i \in 1..Len(invitees) :
            invitees[i].hasResponded <=> HasDoc(responses, invitees[i].employeeId)

\* ------------------------------------------------------------------
\* Roster uploads that fail
\* ------------------------------------------------------------------

\* C22: when bulk_upload_invitees or bulk_upload_invitees_enhanced answers
\* with an error, invitees is as it was before the request.  With one request
\* at a time this is: the step that answers the error changes nothing, and a
\* stored roster is cleared only by a request whose insert then succeeds.
C22_FailedUploadChangesNothing ==
    [][/\ (/\ \A r \in Reqs : pc'[r] = "idle"
           /\ last'.op \in {"bulk_upload_invitees", "bulk_upload_invitees_enhanced"}
           /\ \/ last'.status # 200
              \/ /\ "success" \in DOMAIN last'.body
                 /\ last'.body.success = FALSE)
              => invitees' = invitees
       /\ \A r \in Reqs :
              (/\ pc[r] \in {"bu_delete", "en_delete"}
               /\ pc'[r] \in {"bu_insert", "en_insert"}
               /\ invitees' # invitees)
                  => /\ arg[r].docs # <<>>
                     /\ insert_many(invitees', arg[r].docs, indexes.invitees).ok
      ]_vars

\* ------------------------------------------------------------------
\* Cached dashboard statistics
\* (PerformanceService.get_dashboard_stats_optimized, POST /performance/cache/clear)
\* ------------------------------------------------------------------

\* the cache key "dashboard_stats", by the characters CacheKeys keeps of it
dashboard_stats == <<"d", "a", "s", "h">>

\* minutes the statistics stay cached
dashboard_ttl == 2

\* $group over db.invitees: the number of invitees and of those with
\* hasResponded; no group, hence the default, when there is no invitee
invitee_stats(inv) ==
    [total |-> Len(inv),
     responded |-> Cardinality({i \in 1..Len(inv) : inv[i].hasResponded})]

\* count_documents({"requiresAccommodation": True}) over db.responses
accommodation_count(resp) ==
    Cardinality({i \in 1..Len(resp) :
                    /\ "requiresAccommodation" \in DOMAIN resp[i]
                    /\ resp[i].requiresAccommodation = TRUE})

\* the foodPreference of a response, None when the document has none
food_preference(d) ==
    IF "foodPreference" \in DOMAIN d THEN d.foodPreference ELSE NoData

\* $group by foodPreference over db.responses, as preference -> count
food_prefs(resp) ==
    [p \in {food_preference(resp[i]) : i \in 1..Len(resp)} |->
        Cardinality({i \in 1..Len(resp) : food_preference(resp[i]) = p})]

\* the stats dictionary (query_time_ms, a duration, is left out);
\* read_before_clear is history, not program state: whether a clear of the
\* key came after the first of the three reads these statistics were made from
dashboard_statistics(stats, accommodation, prefs, early) ==
    [totalInvitees |-> stats.total,
     rsvpYes |-> stats.responded,
     rsvpNo |-> stats.total - stats.responded,
     accommodationRequests |-> accommodation,
     foodPreferences |-> prefs,
     cached |-> FALSE,
     read_before_clear |-> early]

\* cached_data = self.get_cached_data(cache_key); if cached_data: return it
get_dashboard_stats_optimized_lookup(r) ==
    /\ Free(r)
    /\ lookups' = lookups + 1
    /\ IF dashboard_stats \in DOMAIN cache /\ is_cache_valid(cache_ttl, dashboard_stats, now)
       THEN /\ performance_metrics' = [performance_metrics EXCEPT !.cache_hits = @ + 1]
            /\ Reply(r, Response("get_dashboard_stats_optimized", 200, "", 0,
                                 [stats |-> cache[dashboard_stats], hit |-> TRUE]))
       ELSE /\ performance_metrics' = [performance_metrics EXCEPT !.cache_misses = @ + 1]
            /\ Goto(r, "ds_invitees",
                    [emp |-> <<>>, docs |-> <<>>, read_before_clear |-> FALSE])
    /\ UNCHANGED <<db, cache, cache_ttl, stored>>

\* await self.db.invitees.aggregate(...).to_list(1)
get_dashboard_stats_optimized_invitees(r) ==
    /\ pc[r] = "ds_invitees"
    /\ Goto(r, "ds_accommodation",
            [emp |-> <<>>, docs |-> <<>>,
             read_before_clear |-> arg[r].read_before_clear,
             invitee_stats |-> invitee_stats(invitees)])
    /\ UNCHANGED <<db, caching>>

\* await self.db.responses.count_documents(...)
get_dashboard_stats_optimized_accommodation(r) ==
    /\ pc[r] = "ds_accommodation"
    /\ Goto(r, "ds_food",
            [emp |-> <<>>, docs |-> <<>>,
             read_before_clear |-> arg[r].read_before_clear,
             invitee_stats |-> arg[r].invitee_stats,
             accommodation_count |-> accommodation_count(responses)])
    /\ UNCHANGED <<db, caching>>

\* await self.db.responses.aggregate(...).to_list(10), then the statistics
\* are compiled, cached for 2 minutes and returned
get_dashboard_stats_optimized_food(r) ==
    /\ pc[r] = "ds_food"
    /\ LET stats == dashboard_statistics(arg[r].invitee_stats,
                                         arg[r].accommodation_count,
                                         food_prefs(responses),
                                         arg[r].read_before_clear)
       IN /\ cache' = put(cache, dashboard_stats, stats)
          /\ cache_ttl' = put(cache_ttl, dashboard_stats, now + dashboard_ttl)
          /\ stored' = [stored EXCEPT ![dashboard_stats] =
                           [set |-> TRUE, data |-> stats, at |-> now,
                            ttl |-> dashboard_ttl]]
          /\ Reply(r, Response("get_dashboard_stats_optimized", 200, "", 0,
                               [stats |-> stats, hit |-> FALSE]))
    /\ UNCHANGED <<db, performance_metrics, lookups>>

\* POST /performance/cache/clear; the requests that have read from the
\* database by now are noted as having read before this clear
clear_performance_cache(pattern) ==
    /\ clear_cache(pattern)
    /\ pc' = pc
    /\ arg' = [r \in Reqs |->
                  IF /\ pc[r] \in {"ds_accommodation", "ds_food"}
                     /\ (pattern = <<>> \/ Contains(dashboard_stats, pattern))
                  THEN [arg[r] EXCEPT !.read_before_clear = TRUE]
                  ELSE arg[r]]
    /\ UNCHANGED <<db, budget, now>>

DashboardStep(r) ==
    \/ get_dashboard_stats_optimized_lookup(r)
    \/ get_dashboard_stats_optimized_invitees(r)
    \/ get_dashboard_stats_optimized_accommodation(r)
    \/ get_dashboard_stats_optimized_food(r)
    \/ (create_initial_admin_find(r) /\ UNCHANGED caching)
    \/ (create_initial_admin_insert_user(r) /\ UNCHANGED caching)
    \/ (create_initial_admin_insert_invitee(r) /\ UNCHANGED caching)

\* dashboard requests and create_initial_admin, which changes the
\* statistics, interleaved with clears of the cache and the passing of time
NextDashboard ==
    /\ \/ \E r \in Reqs :
              /\ DashboardStep(r)
              /\ Idle(r) => budget > 0
              /\ budget' = IF Idle(r) THEN budget - 1 ELSE budget
              /\ UNCHANGED now
       \/ \E pattern \in Patterns : clear_performance_cache(pattern)
       \/ (CacheTick /\ UNCHANGED <<db, slots, budget>>)
    /\ UNCHANGED <<tokens, loggedOut, csv, media, cab_allocations, exports, feedback, documents, message_logs, bulk_message_logs>>

SpecDashboard == Init /\ [][NextDashboard]_vars

\* C23: after clear_cache (no pattern, or a pattern contained in the key)
\* has returned, every get_dashboard_stats_optimized call that returns gives
\* statistics read from the database after that clear; and statistics of an
\* earlier computation are returned only within 2 minutes of their caching.
C23_FreshAfterClear ==
    last.op = "get_dashboard_stats_optimized" =>
        /\ ~last.body.stats.read_before_clear
        /\ last.body.hit =>
               /\ stored[dashboard_stats].set
               /\ last.body.stats = stored[dashboard_stats].data
               /\ now < stored[dashboard_stats].at + dashboard_ttl

\* ------------------------------------------------------------------
\* Documents (DocumentService.upload_document, delete_document)
\* ------------------------------------------------------------------

\* self.document_categories, two of its six entries
document_categories ==
    [agenda |-> [file_types |-> {".pdf", ".docx"}, max_size_mb |-> 10],
     certificates |-> [file_types |-> {".pdf"}, max_size_mb |-> 5]]

\* the categories a caller names: two that exist and one that does not
Categories == {"agenda", "certificates", "memo"}

\* uploaded files: the suffix of the name and the size in MB
DocumentFiles == {[suffix |-> x, size_mb |-> m] : x \in {".pdf", ".docx"}, m \in {1, 8}}

\* the document record built by upload_document
Document(id, category, event_version) ==
    [documentId |-> id,
     category |-> category,
     eventVersion |-> event_version,
     isActive |-> TRUE]

\* the positions of the active documents of a category and event version
active_documents(docs, category, event_version) ==
    {i \in 1..Len(docs) :
        /\ docs[i].category = category
        /\ docs[i].eventVersion = event_version
        /\ docs[i].isActive}

\* the position of the first document with this id that filter accepts, 0 if none
RECURSIVE first_document(_, _, _, _)
first_document(docs, id, active_only, i) ==
    IF i > Len(docs) THEN 0
    ELSE IF docs[i].documentId = id /\ (active_only => docs[i].isActive)
         THEN i
         ELSE first_document(docs, id, active_only, i + 1)

\* update_one(filter, {"$set": {"isActive": False, ...}})
deactivate(docs, i) ==
    IF i = 0 THEN docs ELSE [docs EXCEPT ![i].isActive = FALSE]

\* the checks on category, file type and size, the read of the file, and
\* find_one({"category", "eventVersion", "isActive": True})
upload_document_find(r, file, category, event_version) ==
    /\ Free(r)
    /\ IF category \notin DOMAIN document_categories
       THEN Reply(r, Response("upload_document", 400, "Invalid category", 0, <<>>))
       ELSE IF file.suffix \notin document_categories[category].file_types
       THEN Reply(r, Response("upload_document", 400, "Invalid file type", 0, <<>>))
       ELSE IF file.size_mb > document_categories[category].max_size_mb
       THEN Reply(r, Response("upload_document", 400, "File too large", 0, <<>>))
       ELSE LET active == active_documents(documents, category, event_version)
                document == Document(uuid4, category, event_version)
            IN IF active # {}
               THEN Goto(r, "ud_archive",
                         [emp |-> <<>>, docs |-> <<document>>,
                          existing |-> documents[CHOOSE i \in active :
                                                    \A j \in active : i <= j]])
               ELSE Goto(r, "ud_insert", [emp |-> <<>>, docs |-> <<document>>])
    /\ UNCHANGED documents

\* update_one({"documentId": existing["documentId"]}, $set isActive False)
upload_document_archive(r) ==
    /\ pc[r] = "ud_archive"
    /\ documents' = deactivate(documents,
                               first_document(documents, arg[r].existing.documentId,
                                              FALSE, 1))
    /\ Goto(r, "ud_insert", arg[r])

\* insert_one(document)
upload_document_insert(r) ==
    /\ pc[r] = "ud_insert"
    /\ documents' = Append(documents, arg[r].docs[1])
    /\ Reply(r, Response("upload_document", 200, "Document uploaded successfully", 0,
                         [documentId |-> arg[r].docs[1].documentId,
                          category |-> arg[r].docs[1].category,
                          eventVersion |-> arg[r].docs[1].eventVersion]))

\* update_one({"documentId", "isActive": True}, $set isActive False);
\* 404 when no document matched
delete_document(r, document_id) ==
    /\ Free(r)
    /\ LET i == first_document(documents, document_id, TRUE, 1)
       IN /\ documents' = deactivate(documents, i)
          /\ IF i = 0
             THEN Reply(r, Response("delete_document", 404, "Document not found", 0,
                                    [documentId |-> document_id]))
             ELSE Reply(r, Response("delete_document", 200,
                                    "Document deleted successfully", 0,
                                    [documentId |-> document_id]))

DocumentStep(r) ==
    \/ \E file \in DocumentFiles, category \in Categories, version \in {PMConnect3} :
           upload_document_find(r, file, category, version)
    \/ upload_document_archive(r)
    \/ upload_document_insert(r)
    \/ \E id \in 1..MaxRequests : delete_document(r, id)

\* any interleaving of at most MaxRequests upload and delete calls
NextDocuments ==
    \E r \in Reqs :
        /\ DocumentStep(r)
        /\ Idle(r) => budget > 0
        /\ budget' = IF Idle(r) THEN budget - 1 ELSE budget
        /\ UNCHANGED <<db, auth, csv, media, cab_allocations, exports, caching,
                       feedback, message_logs, bulk_message_logs>>

SpecDocuments == Init /\ [][NextDocuments]_vars

\* C24: every (category, eventVersion) pair has at most one document with
\* isActive = true, and after a successful upload_document the new document
\* is the only active one of its pair.
C24_OneActiveDocument ==
    /\ \A c \in Categories :
           Cardinality(active_documents(documents, c, PMConnect3)) <= 1
    /\ (last.op = "upload_document" /\ last.status = 200) =>
           \A i \in active_documents(documents, last.body.category,
                                     last.body.eventVersion) :
               documents[i].documentId = last.body.documentId

\* ------------------------------------------------------------------
\* The initial administrator
\* ------------------------------------------------------------------

Admins(usr) == {i \in 1..Len(usr) : usr[i].role = "admin"}

\* C25: users never holds more than one admin user; once a
\* create_initial_admin call has answered successfully it holds exactly one,
\* and a call that begins while an admin exists inserts nothing and reports
\* admin_exists = true.
C25_ExactlyOneAdmin ==
    [][/\ Cardinality(Admins(users')) <= 1
       /\ (last'.op = "create_initial_admin" /\ last'.status = 200)
              => Cardinality(Admins(users')) = 1
       /\ \A r \in Reqs :
              (create_initial_admin_find(r) /\ Admins(users) # {})
                  => /\ last'.op = "create_initial_admin"
                     /\ last'.body.admin_exists = TRUE
                     /\ pc'[r] = "idle"
                     /\ users' = users
                     /\ invitees' = invitees
      ]_vars

\* ------------------------------------------------------------------
\* The status of feedback
\* (FeedbackService.submit_feedback, update_feedback_status, respond_to_feedback)
\* ------------------------------------------------------------------

valid_statuses == {"submitted", "reviewed", "responded", "closed", "escalated"}

\* the new_status a caller sends: two of the five statuses, another text,
\* and null
RequestedStatuses == {"reviewed", "closed", "archived", NoData}

\* the ids a caller names: those uuid4 can have given out, and one it cannot
FeedbackIds == 0..MaxRequests

\* the position of the first document with this feedbackId, 0 if none
RECURSIVE feedback_index(_, _, _)
feedback_index(coll, id, i) ==
    IF i > Len(coll) THEN 0
    ELSE IF coll[i].feedbackId = id THEN i
    ELSE feedback_index(coll, id, i + 1)

\* update_one({"feedbackId": id}, {"$set": update_data}) for a matched document
RECURSIVE set_feedback(_, _, _)
set_feedback(coll, i, update_data) ==
    IF DOMAIN update_data = {} THEN coll
    ELSE LET field == CHOOSE f \in DOMAIN update_data : TRUE
         IN set_feedback([coll EXCEPT ![i] = put(@, field, update_data[field])], i,
                         [f \in DOMAIN update_data \ {field} |-> update_data[f]])

\* update_one({"employeeId": e}, {"$inc": {"feedbackCount": 1}}) on db.users
inc_feedback_count(usr, e) ==
    IF HasDoc(usr, e)
    THEN [usr EXCEPT ![FirstIndex(usr, e)] =
             put(@, "feedbackCount",
                 IF "feedbackCount" \in DOMAIN @ THEN @.feedbackCount + 1 ELSE 1)]
    ELSE usr

\* POST /feedback/submit: the document is stored with status "submitted"
submit_feedback(r, employee_id, rating, anonymous, isPublic) ==
    /\ Free(r)
    /\ Len(feedback) < MaxFeedback
    /\ feedback' = Append(feedback,
                          Feedback(uuid4, employee_id, rating, anonymous, isPublic,
                                   "submitted", now))
    /\ users' = inc_feedback_count(users, employee_id)
    /\ Reply(r, Response("submit_feedback", 200, "Feedback submitted successfully", 0,
                         [feedbackId |-> uuid4]))
    /\ UNCHANGED <<invitees, responses, indexes>>

\* PUT /feedback/{feedback_id}/status: the route turns the service's 400 and
\* 404 into a 500
update_feedback_status(r, feedback_id, new_status, admin_employee_id) ==
    /\ Free(r)
    /\ LET i == feedback_index(feedback, feedback_id, 1)
       IN IF new_status \notin valid_statuses
          THEN /\ UNCHANGED feedback
               /\ Reply(r, Response("update_feedback_status", 500, "Invalid status", 400,
                                    [feedbackId |-> feedback_id, new_status |-> new_status]))
          ELSE IF i = 0
          THEN /\ UNCHANGED feedback
               /\ Reply(r, Response("update_feedback_status", 500, "Feedback not found",
                                    404,
                                    [feedbackId |-> feedback_id, new_status |-> new_status]))
          ELSE /\ feedback' = set_feedback(feedback, i,
                                           [status |-> new_status,
                                            lastUpdatedBy |-> admin_employee_id,
                                            lastUpdatedTimestamp |-> now])
               /\ Reply(r, Response("update_feedback_status", 200,
                                    "Feedback status updated successfully", 0,
                                    [feedbackId |-> feedback_id, new_status |-> new_status]))
    /\ UNCHANGED db

\* POST /feedback/{feedback_id}/respond: new_status is stored as it comes
respond_to_feedback(r, feedback_id, admin_response, admin_employee_id, new_status) ==
    /\ Free(r)
    /\ LET i == feedback_index(feedback, feedback_id, 1)
           update_data == [adminResponse |-> strip(admin_response),
                           adminRespondedBy |-> admin_employee_id,
                           adminResponseTimestamp |-> now,
                           status |-> new_status]
       IN IF i = 0
          THEN /\ UNCHANGED feedback
               /\ Reply(r, Response("respond_to_feedback", 500, "Feedback not found", 404,
                                    [feedbackId |-> feedback_id, new_status |-> new_status]))
          ELSE /\ feedback' = set_feedback(feedback, i, update_data)
               /\ IF feedback' = feedback
                  THEN Reply(r, Response("respond_to_feedback", 500,
                                         "Feedback not updated", 400,
                                         [feedbackId |-> feedback_id,
                                          new_status |-> new_status]))
                  ELSE Reply(r, Response("respond_to_feedback", 200,
                                         "Admin response added successfully", 0,
                                         [feedbackId |-> feedback_id,
                                          new_status |-> new_status]))
    /\ UNCHANGED db

FeedbackStep(r) ==
    \/ \E anonymous \in BOOLEAN : submit_feedback(r, E01, 5, anonymous, TRUE)
    \/ \E id \in FeedbackIds, st \in RequestedStatuses :
           update_feedback_status(r, id, st, ADMIN001)
    \/ \E id \in FeedbackIds, st \in RequestedStatuses :
           respond_to_feedback(r, id, <<"o", "k">>, ADMIN001, st)

\* at most MaxRequests feedback requests, in any order
NextFeedbackStatus ==
    \E r \in Reqs :
        /\ FeedbackStep(r)
        /\ budget > 0
        /\ budget' = budget - 1
        /\ UNCHANGED <<auth, csv, media, cab_allocations, exports, caching,
                       documents, message_logs, bulk_message_logs>>

SpecFeedbackStatus == Init /\ [][NextFeedbackStatus]_vars

\* C26: every feedback document's status is one of "submitted", "reviewed",
\* "responded", "closed", "escalated": submit_feedback stores "submitted",
\* neither update_feedback_status nor respond_to_feedback stores another
\* status, and a request that is rejected leaves the documents as they were.
C26_StatusIsValid ==
    [][/\ \A i \in 1..Len(feedback') : feedback'[i].status \in valid_statuses
       /\ (last'.op = "submit_feedback" /\ last'.status = 200)
              => feedback'[Len(feedback')].status = "submitted"
       /\ (/\ last'.op \in {"update_feedback_status", "respond_to_feedback"}
           /\ last'.status # 200)
              => feedback' = feedback
      ]_vars

\* ------------------------------------------------------------------
\* WhatsApp messages (WhatsAppService.send_message, send_bulk_messages)
\* ------------------------------------------------------------------

\* recipients of one send_bulk_messages call
MaxRecipients == 2
\* message_logs documents in a run
MaxLogs == 3

\* what the POST to the Node.js gateway can come to: 200 with success true,
\* 200 with success false, another HTTP status, or an exception of the
\* client (connection refused, timeout)
GatewayOutcomes == {"sent", "refused", "http_error", "unreachable"}

\* message_log as it is when insert_one is reached
message_log(id, phone_number, message, outcome) ==
    [messageId |-> id,
     phoneNumber |-> phone_number,
     message |-> message,
     status |-> IF outcome = "sent" THEN "sent" ELSE "failed",
     attempts |-> 1,
     service |-> "whatsapp"]

\* send_message: the documents it inserts into message_logs and what it
\* returns; an exception of the client leaves the try block before insert_one
send_message_result(id, phone_number, message, outcome) ==
    IF outcome = "unreachable"
    THEN [logs |-> <<>>, result |-> [success |-> FALSE, error |-> "ConnectError"]]
    ELSE LET log == message_log(id, phone_number, message, outcome)
         IN [logs |-> <<log>>,
             result |-> [success |-> log.status = "sent",
                         messageId |-> log.messageId,
                         status |-> log.status]]

\* the loop of send_bulk_messages from recipient k on: results and the
\* message_logs documents inserted on the way
RECURSIVE bulk_results(_, _, _, _, _, _)
bulk_results(recipients, outcomes, id, k, results, logs) ==
    IF k > Len(recipients) THEN [results |-> results, logs |-> logs]
    ELSE LET phone_number == recipients[k].phone_number
             message == recipients[k].message
         IN IF phone_number = <<>> \/ message = <<>>
            THEN bulk_results(recipients, outcomes, id, k + 1,
                     [results EXCEPT
                         !.failed = @ + 1,
                         !.details = Append(@, [phone_number |-> phone_number,
                                                status |-> "failed",
                                                error |-> "Missing phone number or message"])],
                     logs)
            ELSE LET sm == send_message_result(<<id, k>>, phone_number, message,
                                               outcomes[k])
                 IN IF sm.result.success
                    THEN bulk_results(recipients, outcomes, id, k + 1,
                             [results EXCEPT
                                 !.sent = @ + 1,
                                 !.details = Append(@, [phone_number |-> phone_number,
                                                        status |-> "sent",
                                                        messageId |-> sm.result.messageId])],
                             logs \o sm.logs)
                    ELSE bulk_results(recipients, outcomes, id, k + 1,
                             [results EXCEPT
                                 !.failed = @ + 1,
                                 !.details = Append(@, [phone_number |-> phone_number,
                                                        status |-> "failed",
                                                        error |-> IF "error" \in DOMAIN sm.result
                                                                  THEN sm.result.error
                                                                  ELSE "Unknown error"])],
                             logs \o sm.logs)

\* send_bulk_messages as a function of the gateway's answers
bulk_send(recipients, outcomes, id) ==
    bulk_results(recipients, outcomes, id, 1,
                 [total |-> Len(recipients), sent |-> 0, failed |-> 0, details |-> <<>>],
                 <<>>)

bulk_log(id, results) ==
    [bulkId |-> id,
     totalRecipients |-> results.total,
     sentCount |-> results.sent,
     failedCount |-> results.failed,
     service |-> "whatsapp"]

\* one send_message call
send_message(phone_number, message, outcome) ==
    /\ AllIdle
    /\ budget > 0
    /\ Len(message_logs) < MaxLogs
    /\ budget' = budget - 1
    /\ LET sm == send_message_result(<<uuid4, 0>>, phone_number, message, outcome)
       IN /\ message_logs' = message_logs \o sm.logs
          /\ last' = Response("send_message", 0, "", 0,
                              [phone_number |-> phone_number, result |-> sm.result])
    /\ UNCHANGED <<db, slots, auth, csv, media, cab_allocations, exports, caching,
                   feedback, documents, bulk_message_logs>>

\* one send_bulk_messages call
send_bulk_messages(recipients, outcomes) ==
    /\ AllIdle
    /\ budget > 0
    /\ Len(message_logs) + Len(recipients) <= MaxLogs
    /\ budget' = budget - 1
    /\ LET sent == bulk_send(recipients, outcomes, uuid4)
       IN /\ message_logs' = message_logs \o sent.logs
          /\ bulk_message_logs' = Append(bulk_message_logs, bulk_log(uuid4, sent.results))
          /\ last' = Response("send_bulk_messages", 0, "", 0,
                              [recipients |-> recipients, results |-> sent.results])
    /\ UNCHANGED <<db, slots, auth, csv, media, cab_allocations, exports, caching,
                   feedback, documents>>

\* a recipient with a phone number and a message, one without a phone
\* number, one without a message
RecipientLists ==
    SeqsUpTo({[phone_number |-> <<"9", "1">>, message |-> <<"h", "i">>],
              [phone_number |-> <<>>, message |-> <<"h", "i">>],
              [phone_number |-> <<"9", "1">>, message |-> <<>>]},
             MaxRecipients)

NextMessages ==
    \/ \E o \in GatewayOutcomes : send_message(<<"9", "1">>, <<"h", "i">>, o)
    \/ \E recipients \in RecipientLists :
       \E outcomes \in [1..Len(recipients) -> GatewayOutcomes] :
           send_bulk_messages(recipients, outcomes)

SpecMessages == Init /\ [][NextMessages]_vars

\* the recipients of a bulk call for which send_message is called
Attempted(recipients) ==
    {k \in 1..Len(recipients) :
        recipients[k].phone_number # <<>> /\ recipients[k].message # <<>>}

\* C28: every send_message call adds exactly one message_logs document for
\* the attempt, with status "sent" or "failed", also when the gateway cannot
\* be reached; send_bulk_messages returns sent + failed = total and one
\* details entry per recipient.
C28_EveryAttemptIsLogged ==
    [][/\ last'.op = "send_message" =>
              /\ Len(message_logs') = Len(message_logs) + 1
              /\ message_logs'[Len(message_logs')].phoneNumber = last'.body.phone_number
              /\ message_logs'[Len(message_logs')].status \in {"sent", "failed"}
       /\ last'.op = "send_bulk_messages" =>
              /\ Len(message_logs')
                     = Len(message_logs) + Cardinality(Attempted(last'.body.recipients))
              /\ last'.body.results.sent + last'.body.results.failed
                     = last'.body.results.total
              /\ last'.body.results.total = Len(last'.body.recipients)
              /\ Len(last'.body.results.details) = Len(last'.body.recipients)
       /\ \A i \in 1..Len(message_logs') :
              message_logs'[i].status \in {"sent", "failed"}
      ]_vars

\* ------------------------------------------------------------------
\* RSVP reminders (WhatsAppService.send_rsvp_reminders)
\* ------------------------------------------------------------------

\* the rsvp_reminder template with {name} and {rsvp_link} filled in: the
\* name and the employeeId the link ends with (the deadline, a date, is
\* left out)
rsvp_reminder(name, employee_id) == <<"rsvp_reminder", name, employee_id>>

\* invitee.get("phone", "")
phone_of(invitee) == IF "phone" \in DOMAIN invitee THEN invitee.phone ELSE <<>>

\* the recipients built from the invitees found: those without a phone
\* number are skipped
RECURSIVE reminder_recipients(_)
reminder_recipients(unresponded_invitees) ==
    IF unresponded_invitees = <<>> THEN <<>>
    ELSE LET invitee == Head(unresponded_invitees)
         IN (IF phone_of(invitee) = <<>>
             THEN <<>>
             ELSE <<[phone_number |-> phone_of(invitee),
                     message |-> rsvp_reminder(invitee.employeeName,
                                               invitee.employeeId)]>>)
            \o reminder_recipients(Tail(unresponded_invitees))

\* find({"hasResponded": False}).to_list(1000)
find_unresponded(coll) ==
    LET open == SelectSeq(coll, LAMBDA d : ~d.hasResponded)
    IN SubSeq(open, 1, IF Len(open) < ToListLimit THEN Len(open) ELSE ToListLimit)

\* send_rsvp_reminders: find({"hasResponded": False}).to_list(1000), the
\* recipients, and send_bulk_messages to them
send_rsvp_reminders(outcomes) ==
    /\ AllIdle
    /\ budget > 0
    /\ budget' = budget - 1
    /\ LET unresponded_invitees == find_unresponded(invitees)
           recipients == reminder_recipients(unresponded_invitees)
           sent == bulk_send(recipients, outcomes, uuid4)
       IN /\ DOMAIN outcomes = 1..Len(recipients)
          /\ Len(message_logs) + Len(recipients) <= MaxLogs
          /\ IF unresponded_invitees = <<>>
             THEN /\ last' = Response("send_rsvp_reminders", 0, "No pending RSVPs", 0,
                                      [recipients |-> <<>>, sent |-> 0])
                  /\ UNCHANGED <<message_logs, bulk_message_logs>>
             ELSE IF recipients = <<>>
             THEN /\ last' = Response("send_rsvp_reminders", 0,
                                      "No valid phone numbers found", 0,
                                      [recipients |-> <<>>, sent |-> 0])
                  /\ UNCHANGED <<message_logs, bulk_message_logs>>
             ELSE /\ message_logs' = message_logs \o sent.logs
                  /\ bulk_message_logs' =
                         Append(bulk_message_logs, bulk_log(uuid4, sent.results))
                  /\ last' = Response("send_rsvp_reminders", 0,
                                      "RSVP reminders processed", 0,
                                      [recipients |-> recipients,
                                       results |-> sent.results])
    /\ UNCHANGED <<db, slots, auth, csv, media, cab_allocations, exports, caching,
                   feedback, documents>>

ReminderStep(r) ==
    \/ \E e \in RosterIds : submit_response_find_invitee(r, e)
    \/ submit_response_find_response(r)
    \/ submit_response_insert(r)
    \/ submit_response_update(r)
    \/ \E file \in PhoneRosters : bulk_upload_invitees_read(r, file)
    \/ bulk_upload_invitees_delete(r)
    \/ bulk_upload_invitees_insert(r)
    \/ \E file \in PhoneRosters : bulk_upload_invitees_enhanced_read(r, file)
    \/ bulk_upload_invitees_enhanced_delete(r)
    \/ bulk_upload_invitees_enhanced_insert(r)

\* roster uploads and submit_response requests one at a time, and
\* reminders between them
NextReminders ==
    \/ \E r \in Reqs :
           /\ ReminderStep(r)
           /\ \A q \in Reqs \ {r} : Idle(q)
           /\ UNCHANGED <<budget, auth, csv, ext>>
    \/ \E n \in 0..MaxRecipients : \E outcomes \in [1..n -> GatewayOutcomes] :
           send_rsvp_reminders(outcomes)

SpecReminders == Init /\ [][NextReminders]_vars

\* C27: no recipient of send_rsvp_reminders is an employee for whom a
\* response document is stored, and every recipient has a non-empty phone
\* number.
C27_RemindersOnlyToUnresponded ==
    last.op = "send_rsvp_reminders" =>
        \A k \in 1..Len(last.body.recipients) :
            /\ ~HasDoc(responses, last.body.recipients[k].message[3])
            /\ last.body.recipients[k].phone_number # <<>>

\* ------------------------------------------------------------------
\* Paginated invitees (PerformanceService.get_paginated_invitees)
\* ------------------------------------------------------------------

\* bounds: documents in db.invitees, and the largest page asked for
MaxInvitees == 3
MaxPage == 3

\* the letters of this section in lower case ("$options": "i")
lower(ch) == CASE ch = "M" -> "m" [] ch = "X" -> "x" [] ch = "P" -> "p" [] OTHER -> ch
lowercase(text) == [i \in 1..Len(text) |-> lower(text[i])]

\* {"$regex": pattern, "$options": "i"} for a pattern of plain letters
regex_i(text, pattern) == Contains(lowercase(text), lowercase(pattern))

\* the filters the route builds: a filter is set only for a parameter that
\* is given (cadre and projectName non-empty, hasResponded not None);
\* hasResponded is the query parameter as written, "true" or "false"
page_filters(cadre, projectName, hasResponded) ==
    [cadre |-> cadre, projectName |-> projectName, hasResponded |-> hasResponded]

page_query(d, filters) ==
    /\ filters.cadre # <<>> => regex_i(d.cadre, filters.cadre)
    /\ filters.projectName # <<>> => regex_i(d.projectName, filters.projectName)
    /\ filters.hasResponded # NoData => d.hasResponded = (filters.hasResponded = "true")

\* find(query): the matching documents in stored order
RECURSIVE page_find(_, _)
page_find(coll, filters) ==
    IF coll = <<>> THEN <<>>
    ELSE IF page_query(Head(coll), filters)
         THEN <<Head(coll)>> \o page_find(Tail(coll), filters)
         ELSE page_find(Tail(coll), filters)

\* skip(n): the documents after the first n
cursor_skip(docs, n) ==
    IF n >= Len(docs) THEN <<>> ELSE SubSeq(docs, n + 1, Len(docs))

\* a slip: the division rounds down
total_pages_floor(total_count, limit) == total_count \div limit

\* (total_count + limit - 1) // limit
total_pages(total_count, limit) == (total_count + limit - 1) \div limit

\* what get_paginated_invitees returns for page >= 1 and limit >= 1
paginated_invitees(coll, page, limit, filters) ==
    LET skip == (page - 1) * limit
        total_count == Len(page_find(coll, filters))
        items == to_list(cursor_limit(cursor_skip(page_find(coll, filters), skip), limit),
                         limit)
    IN [items |-> items,
        pagination |-> [current_page |-> page,
                        total_pages |-> total_pages(total_count, limit),
                        total_items |-> total_count,
                        limit |-> limit,
                        has_next |-> page < total_pages(total_count, limit),
                        has_prev |-> page > 1]]

\* GET /invitees/paginated: skip() raises ValueError for page < 1 (with
\* limit >= 1) and the division raises ZeroDivisionError for limit = 0;
\* the route answers both with a 500
get_paginated_invitees(page, limit, filters) ==
    /\ AllIdle
    /\ budget > 0
    /\ budget' = budget - 1
    /\ IF (page - 1) * limit < 0 \/ limit = 0
       THEN last' = Response("get_paginated_invitees", 500,
                             "Paginated invitees fetch failed", 0,
                             [page |-> page, limit |-> limit, filters |-> filters])
       ELSE last' = Response("get_paginated_invitees", 200, "", 0,
                             [page |-> page, limit |-> limit, filters |-> filters,
                              data |-> paginated_invitees(invitees, page, limit, filters)])
    /\ UNCHANGED <<db, slots, auth, csv, ext>>

\* an invitee document; id stands for the _id MongoDB gives it
PageInvitee(id, cadre, hasResponded) ==
    [id |-> id,
     employeeId |-> E01,
     employeeName |-> <<"A", "b">>,
     cadre |-> cadre,
     projectName |-> <<"P">>,
     hasResponded |-> hasResponded]

\* the collection is any roster of up to MaxInvitees documents; nothing
\* writes to it, so each behaviour is one request against it
InitPages ==
    /\ InitExt
    /\ \E kinds \in SeqsUpTo({[cadre |-> c, hasResponded |-> h] :
                                 c \in {<<"M">>, <<"X">>}, h \in BOOLEAN}, MaxInvitees) :
           invitees = [i \in 1..Len(kinds) |->
                          PageInvitee(i, kinds[i].cadre, kinds[i].hasResponded)]
    /\ responses = <<>>
    /\ users = <<>>
    /\ indexes = [invitees |-> FALSE, responses |-> FALSE, users |-> FALSE]
    /\ pc = [r \in Reqs |-> "idle"]
    /\ arg = [r \in Reqs |-> NoArg]
    /\ last = NoResponse
    /\ budget = 1
    /\ now = 0
    /\ tokens = {}
    /\ loggedOut = {}
    /\ frame = DataFrame("csv", required_columns, <<>>)
    /\ validation = NotValidated

NextPages ==
    \E page \in 0..MaxPage, limit \in 0..MaxLimit :
    \E cadre \in {<<>>, <<"m">>}, projectName \in {<<>>, <<"p">>},
       hasResponded \in {NoData, "true", "false"} :
        get_paginated_invitees(page, limit,
                               page_filters(cadre, projectName, hasResponded))

SpecPages == InitPages /\ [][NextPages]_vars

\* the items of pages 1..n, one page after the other
RECURSIVE Pages(_, _, _, _)
Pages(coll, n, limit, filters) ==
    IF n = 0 THEN <<>>
    ELSE Pages(coll, n - 1, limit, filters)
         \o paginated_invitees(coll, n, limit, filters).items

\* C29: for page >= 1 and limit >= 1, get_paginated_invitees returns at
\* most limit items, total_pages is total_items / limit rounded up, has_next
\* holds exactly when page < total_pages and has_prev exactly when page > 1,
\* pages 1..total_pages hold every matching invitee exactly once, and a page
\* beyond total_pages has no items.
C29_Pagination ==
    (/\ last.op = "get_paginated_invitees"
     /\ last.body.page >= 1
     /\ last.body.limit >= 1) =>
        LET page == last.body.page
            limit == last.body.limit
            matching == SelectSeq(invitees, LAMBDA d : page_query(d, last.body.filters))
            got == last.body.data
            pages == got.pagination.total_pages
        IN /\ last.status = 200
           /\ Len(got.items) <= limit
           /\ got.pagination.total_items = Len(matching)
           /\ pages * limit >= Len(matching)
           /\ (pages - 1) * limit < Len(matching) \/ (pages = 0 /\ matching = <<>>)
           /\ got.pagination.has_next <=> page < pages
           /\ got.pagination.has_prev <=> page > 1
           /\ Pages(invitees, pages, limit, last.body.filters) = matching
           /\ \A i, j \in 1..Len(matching) : i # j => matching[i].id # matching[j].id
           /\ page > pages => got.items = <<>>

\* the second of two pages of limit 2 holds the one invitee left over of the
\* three that match a cadre filter
C29_Witness ==
    /\ last.op = "get_paginated_invitees"
    /\ last.status = 200
    /\ last.body.page = 2
    /\ last.body.limit = 2
    /\ last.body.filters.cadre = <<"m">>
    /\ last.body.data.pagination.total_items = 3
    /\ last.body.data.pagination.total_pages = 2
    /\ Len(last.body.data.items) = 1
    /\ last.body.data.items[1] = invitees[3]
    /\ ~last.body.data.pagination.has_next
    /\ last.body.data.pagination.has_prev

====
